---- MODULE Spec2Model ----
(***************************************************************************)
(* HomeSwipe (swipe-home): the preference-adaptive ranking engine          *)
(* (services/groq.ts), the pattern top-up fetch (services/rentcast.ts)     *)
(* and the swipe feed controller (pages/SwipeFeed.tsx).                    *)
(*                                                                         *)
(* Numbers.  JavaScript numbers that are ratios in [0,1] are held as       *)
(* integers in units of 1/SCALE (0.78 is 7800); weights are held in        *)
(* hundredths, so a weighted sum is in units of 1/(100*SCALE).  Band       *)
(* thresholds (<= 0.15, >= 0.4 ...) are compared exactly, by               *)
(* cross-multiplication.  Prices are whole dollars, commutes whole         *)
(* minutes.  near_subway_lines is held as a set of line names.             *)
(***************************************************************************)
EXTENDS Integers, Sequences, FiniteSets, TLC

VARIABLES
    swipeHistory,   \* localStorage "swipeHistory": [liked, disliked] sequences of SwipeEntry
    quizAnswers,    \* localStorage "preferenceQuizAnswers": NoQuiz or a PreferenceQuizAnswers
    lastCall,       \* the last computeMatchScore call: NoCall or [tags, price, ..., score]
    patIn,          \* fetchPatternMatchedListings: its arguments and what the source returns
    patSeed,        \* rankedSeed
    patEnriched,    \* enriched, filled one listing at a time
    patResult,      \* the resolved value
    patPc,          \* "off", "start", "enriching", "done"
    filterKey,      \* SwipeFeed: the active filter set (priceType, bedrooms, bathrooms)
    listings,       \* the listings state of the last render
    listingsRef,    \* listingsRef.current
    updateQueue,    \* setListings updaters not rendered yet
    currentIndex,   \* the cursor (0-based)
    rescoreRunRef,
    patternFetchInFlightRef,
    patternBatchCountRef,
    autoTopupAttemptsRef,
    hasPromptedQuizRef,
    showPreferenceQuiz,
    isFindingPatternMatches,
    savedListings,  \* ids of the saved (liked) listings
    sessionMeta,    \* localStorage session metadata, per filter set
    tagsCache,      \* ids whose tags are cached
    pendingSwipes,  \* swipes whose extractListingTags promise is pending
    topups,         \* fetchPatternMatches calls between setting and clearing the flag
    sessionCache,   \* the session snapshot of the listings, per filter set
    commit,         \* what the last commit changed; its effects have not run yet
    lastRender,     \* bookkeeping: the list before that commit and the updaters it applied
    swipeLog,       \* bookkeeping: the swipes made, and whether recordSwipe threw
    topupCount,     \* bookkeeping: fetchPatternMatches calls that passed the guard
    filterChanges,  \* bookkeeping: handleFilterChange calls
    emptyTopups,    \* bookkeeping: the last top-ups in a row that failed or added no listing
    storedHistory,  \* localStorage "swipeHistory" as it is on disk (any format)
    storeOp,        \* the last Signal Store call on storedHistory: what it read and returned
    nextCall,       \* a computeMatchScore call that follows lastCall on the same store
    rawCall,        \* fetchRawListings: its arguments, what the source answers, its outcome
    groq,           \* callGroq: the attempt, the waits, the outcome
    tagsCall,       \* extractListingTags: the listing and the position in the function
    memTags,        \* tagsCache (in memory), per listing id
    diskTags,       \* localStorage "tags_<id>", per listing id
    enrichCall,     \* enrichListing: the listing, what the services can do, the resolved value
    monitoringEventQueue, \* localStorage "monitoringEventQueue_v1": the queued events
    monitorCalls    \* monitorEvent: the provider, the calls made, the deliveries in flight

storeVars == <<swipeHistory, quizAnswers>>
scoreVars == <<lastCall>>
patVars == <<patIn, patSeed, patEnriched, patResult, patPc>>
feedVars == <<filterKey, listings, listingsRef, updateQueue, currentIndex, rescoreRunRef,
              patternFetchInFlightRef, patternBatchCountRef, autoTopupAttemptsRef,
              hasPromptedQuizRef, showPreferenceQuiz, isFindingPatternMatches,
              savedListings, sessionMeta, tagsCache, pendingSwipes, topups, sessionCache,
              commit, lastRender, swipeLog, topupCount, filterChanges, emptyTopups>>
diskVars == <<storedHistory, storeOp>>
callVars == <<nextCall>>
rawVars == <<rawCall>>
tagVars == <<groq, tagsCall, memTags, diskTags>>
enrichVars == <<enrichCall>>
monVars == <<monitoringEventQueue, monitorCalls>>
auxVars == <<diskVars, callVars, rawVars, tagVars, enrichVars, monVars>>
vars == <<storeVars, scoreVars, patVars, feedVars, auxVars>>

----------------------------------------------------------------------------
(* Arithmetic helpers *)

SCALE == 100 * 100

Min(a, b) == IF a <= b THEN a ELSE b
Max(a, b) == IF a >= b THEN a ELSE b
Abs(a) == IF a >= 0 THEN a ELSE -a

\* Math.round(n / d) for n >= 0, d > 0 (round half up)
RoundDiv(n, d) == (2 * n + d) \div (2 * d)

RECURSIVE SumSeq(_)
SumSeq(s) == IF s = <<>> THEN 0 ELSE Head(s) + SumSeq(Tail(s))

RECURSIVE MinSeq(_)
MinSeq(s) == IF Len(s) = 1 THEN s[1] ELSE Min(s[1], MinSeq(Tail(s)))

RECURSIVE MaxSeq(_)
MaxSeq(s) == IF Len(s) = 1 THEN s[1] ELSE Max(s[1], MaxSeq(Tail(s)))

\* Array.prototype.filter / map on a sequence
FilterSeq(s, Keep(_)) == SelectSeq(s, Keep)

MapSeq(s, F(_)) == [i \in 1..Len(s) |-> F(s[i])]

CountSeq(s, P(_)) == Cardinality({i \in 1..Len(s) : P(s[i])})

----------------------------------------------------------------------------
(* ListingTags and the swipe history (services/groq.ts) *)

BooleanKeys == {"natural_light", "elevator", "laundry_in_building", "laundry_in_unit",
                "doorman", "pet_friendly", "dishwasher", "renovated"}

\* a ListingTags value: features = the boolean keys that are true
MkTags(f, l, n, b) == [features |-> f, near_subway_lines |-> l, noise_level |-> n, building_type |-> b]

MkEntry(t, p, pt, c) == [tags |-> t, price |-> p, priceType |-> pt, commuteMinutes |-> c]

EmptyHistory == [liked |-> <<>>, disliked |-> <<>>]

\* recordSwipe: read the history, push the entry on its partition, write it back
RecordSwipeBroken(history, tagsArg, direction, priceArg, priceTypeArg, commuteMinutes) ==
    IF direction = "right"
    THEN [history EXCEPT !.liked = <<MkEntry(tagsArg, priceArg, priceTypeArg, commuteMinutes)>>]
    ELSE [history EXCEPT !.disliked = <<MkEntry(tagsArg, priceArg, priceTypeArg, commuteMinutes)>>]

recordSwipe(history, tagsArg, direction, priceArg, priceTypeArg, commuteMinutes) ==
    IF direction = "right"
    THEN [history EXCEPT !.liked = Append(@, MkEntry(tagsArg, priceArg, priceTypeArg, commuteMinutes))]
    ELSE [history EXCEPT !.disliked = Append(@, MkEntry(tagsArg, priceArg, priceTypeArg, commuteMinutes))]

getTotalSwipes(history) == Len(history.liked) + Len(history.disliked)

NoRange == [none |-> TRUE]

\* toPriceStats / derivePriceRange / get*CommuteRange: null below 2 samples
toStatsOneSample(values) ==
    IF Len(values) < 1 THEN NoRange
    ELSE [avg |-> RoundDiv(SumSeq(values), Len(values)),
          min |-> MinSeq(values), max |-> MaxSeq(values)]

toStats(values) ==
    IF Len(values) < 2 THEN NoRange
    ELSE [avg |-> RoundDiv(SumSeq(values), Len(values)),
          min |-> MinSeq(values), max |-> MaxSeq(values)]

derivePriceRange(entries, pt) ==
    LET Qual(e) == e.price > 0 /\ (pt = "any" \/ e.priceType = pt)
        Price(e) == e.price
    IN toStats(MapSeq(FilterSeq(entries, Qual), Price))

deriveCommuteRange(entries) ==
    LET Qual(e) == e.commuteMinutes > 0
        Minutes(e) == e.commuteMinutes
    IN toStats(MapSeq(FilterSeq(entries, Qual), Minutes))

getLikedPriceRange(history, pt) == derivePriceRange(history.liked, pt)
getDislikedPriceRange(history, pt) == derivePriceRange(history.disliked, pt)
getLikedCommuteRange(history) == deriveCommuteRange(history.liked)
getDislikedCommuteRange(history) == deriveCommuteRange(history.disliked)

FeatureCount(entries, key) == LET Has(e) == key \in e.tags.features IN CountSeq(entries, Has)
LineCount(entries, line) == LET Has(e) == line \in e.tags.near_subway_lines IN CountSeq(entries, Has)
AllLines(entries) == UNION {entries[i].tags.near_subway_lines : i \in 1..Len(entries)}

\* count >= length * 0.4
getLikedFeatures(history) ==
    {k \in BooleanKeys : FeatureCount(history.liked, k) >= 1
                         /\ 10 * FeatureCount(history.liked, k) >= 4 * Len(history.liked)}

\* count >= max(1, length * 0.4)
getDislikedFeatures(history) ==
    {k \in BooleanKeys : FeatureCount(history.disliked, k) >= 1
                         /\ 10 * FeatureCount(history.disliked, k) >= 4 * Len(history.disliked)}

getLikedSubwayLines(history) ==
    {l \in AllLines(history.liked) : 10 * LineCount(history.liked, l) >= 4 * Len(history.liked)}

getDislikedSubwayLines(history) ==
    {l \in AllLines(history.disliked) : 10 * LineCount(history.disliked, l) >= 4 * Len(history.disliked)}

----------------------------------------------------------------------------
(* Scoring Engine (services/groq.ts) *)

NoQuiz == [none |-> TRUE]

MkQuiz(c, b, st) == [commutePreference |-> c, budgetPreference |-> b, stylePreference |-> st]

\* min(1, overlap / min(size, 3)), in units of 1/SCALE
OverlapRatio(overlap, size) == Min(SCALE, RoundDiv(overlap * SCALE, Min(size, 3)))

\* cold-start weighted sum, in units of 1/(100*SCALE)
ColdWeighted(tagsArg) ==
    LET amenityCount == Cardinality(tagsArg.features \cap BooleanKeys)
        amenityRatio == (amenityCount * SCALE) \div Cardinality(BooleanKeys)
        subwayCount == Cardinality(tagsArg.near_subway_lines)
        subwayRatio == IF subwayCount >= 3 THEN SCALE
                       ELSE IF subwayCount = 2 THEN 8000
                       ELSE IF subwayCount = 1 THEN 6000
                       ELSE 3500
        buildingRatio == IF tagsArg.building_type = "elevator" THEN SCALE
                         ELSE IF tagsArg.building_type = "walkup" THEN 6000
                         ELSE 5000
        noiseRatio == IF tagsArg.noise_level = "quiet" THEN SCALE
                      ELSE IF tagsArg.noise_level = "average" THEN 6500
                      ELSE 5000
    IN amenityRatio * 50 + subwayRatio * 20 + buildingRatio * 15 + noiseRatio * 15

\* the cold-start clamp dropped: 58 + round(weighted * 43)
ColdScoreWideBand(tagsArg) == 58 + RoundDiv(ColdWeighted(tagsArg) * 43, 100 * SCALE)

\* Math.min(92, Math.max(58, Math.round(58 + weighted * 34)))
computeColdStartScore(tagsArg) ==
    Min(92, Max(58, 58 + RoundDiv(ColdWeighted(tagsArg) * 34, 100 * SCALE)))

\* 1. boolean feature matching: a key is liked when count >= liked.length * 0.3
ScoreLikedKeys(history) ==
    {k \in BooleanKeys : Len(history.liked) > 0
                         /\ 10 * FeatureCount(history.liked, k) >= 3 * Len(history.liked)}

FeatureRatioNeutral(history, tagsArg) == 5000

FeatureRatio(history, tagsArg) ==
    LET likedKeys == ScoreLikedKeys(history)
        matching == Cardinality(likedKeys \cap tagsArg.features)
    IN IF likedKeys # {} THEN RoundDiv(matching * SCALE, Cardinality(likedKeys)) ELSE 5000

DislikedFeaturePenalty(history, tagsArg) ==
    LET dislikedFeatures == getDislikedFeatures(history)
        matched == Cardinality((tagsArg.features \cap BooleanKeys) \cap dislikedFeatures)
    IN IF dislikedFeatures # {} THEN OverlapRatio(matched, Cardinality(dislikedFeatures)) ELSE 0

\* 2. subway line overlap
SubwayRatio(history, tagsArg) ==
    LET likedLines == getLikedSubwayLines(history)
        overlap == Cardinality(tagsArg.near_subway_lines \cap likedLines)
    IN IF likedLines # {} /\ tagsArg.near_subway_lines # {}
       THEN OverlapRatio(overlap, Cardinality(likedLines))
       ELSE IF likedLines # {} THEN 2000
       ELSE 5000

DislikedSubwayPenalty(history, tagsArg) ==
    LET dislikedLines == getDislikedSubwayLines(history)
        overlap == Cardinality(tagsArg.near_subway_lines \cap dislikedLines)
    IN IF dislikedLines # {} THEN OverlapRatio(overlap, Cardinality(dislikedLines)) ELSE 0

\* rangeDistanceRatio(value, min * 0.95, max * 1.05, scale) as the fraction
\* num / den: distances are in twentieths of a dollar, so that 0.95 and 1.05
\* are the integers 19 and 21
OutsideNum(value, range) ==
    IF 20 * value < 19 * range.min THEN 19 * range.min - 20 * value
    ELSE IF 20 * value > 21 * range.max THEN 20 * value - 21 * range.max
    ELSE 0

OutsideDen(range) == 20 * Max(1, range.avg)

\* 3. price proximity to the liked range of the listing's priceType
PriceRatioWideBand(history, priceArg, priceTypeArg) ==
    LET range == derivePriceRange(history.liked, priceTypeArg)
        num == OutsideNum(priceArg, range)
        den == OutsideDen(range)
        span == Max(40, 21 * range.max - 19 * range.min)
        center == Abs(40 * priceArg - (19 * range.min + 21 * range.max))
    IN IF priceArg > 0 /\ range # NoRange
       THEN IF num = 0 THEN Max(7800, SCALE - (center * 2200) \div span)
            ELSE IF 100 * num <= 15 * den THEN 8200
            ELSE IF 100 * num <= 35 * den THEN 5200
            ELSE Max(1000, 4000 - ((((num * SCALE) \div den) - 3500) * 35) \div 100)
       ELSE 5000

PriceRatio(history, priceArg, priceTypeArg) ==
    LET range == derivePriceRange(history.liked, priceTypeArg)
        num == OutsideNum(priceArg, range)
        den == OutsideDen(range)
        span == Max(40, 21 * range.max - 19 * range.min)
        center == Abs(40 * priceArg - (19 * range.min + 21 * range.max))
    IN IF priceArg > 0 /\ range # NoRange
       THEN IF num = 0 THEN Max(7800, SCALE - (center * 2200) \div span)
            ELSE IF 100 * num <= 15 * den THEN 7200
            ELSE IF 100 * num <= 35 * den THEN 5200
            ELSE Max(1000, 4000 - ((((num * SCALE) \div den) - 3500) * 35) \div 100)
       ELSE 5000

DislikedPricePenalty(history, priceArg, priceTypeArg) ==
    LET range == derivePriceRange(history.disliked, priceTypeArg)
        num == OutsideNum(priceArg, range)
        den == OutsideDen(range)
    IN IF priceArg > 0 /\ range # NoRange
       THEN IF num = 0 THEN SCALE
            ELSE IF 100 * num <= 12 * den THEN 7500
            ELSE IF 100 * num <= 30 * den THEN 4500
            ELSE IF 100 * num <= 50 * den THEN 2000
            ELSE 0
       ELSE 0

\* Object.entries(counts).sort(([, a], [, b]) => b - a)[0]: the value with the
\* highest count, the one met first in the partition on a tie (stable sort,
\* insertion order of the keys); NoPref when every entry is "unknown"
NoPref == [none |-> TRUE]

TopValue(entries, Field(_)) ==
    LET Known == {i \in 1..Len(entries) : Field(entries[i]) # "unknown"}
        Cnt(v) == Cardinality({i \in Known : Field(entries[i]) = v})
        First(v) == CHOOSE i \in Known : Field(entries[i]) = v /\ \A j \in Known : Field(entries[j]) = v => i <= j
        best == CHOOSE i \in Known : \A j \in Known :
                    \/ Cnt(Field(entries[i])) > Cnt(Field(entries[j]))
                    \/ /\ Cnt(Field(entries[i])) = Cnt(Field(entries[j]))
                       /\ First(Field(entries[i])) <= First(Field(entries[j]))
    IN IF Known = {} THEN NoPref
       ELSE [value |-> Field(entries[best]), count |-> Cnt(Field(entries[best]))]

BuildingOf(e) == e.tags.building_type
NoiseOf(e) == e.tags.noise_level

\* 4. building type and noise preference: contextScore / contextSignals, clamped to [0,1]
ContextDelta(pref, size, own) ==
    IF pref # NoPref /\ 10 * pref.count >= 4 * size
    THEN IF own = pref.value THEN 5000 ELSE IF own # "unknown" THEN -2000 ELSE 0
    ELSE 0

ContextSignal(pref, size) == IF pref # NoPref /\ 10 * pref.count >= 4 * size THEN 1 ELSE 0

ContextRatio(history, tagsArg) ==
    LET n == Len(history.liked)
        building == TopValue(history.liked, BuildingOf)
        noise == TopValue(history.liked, NoiseOf)
        contextSignals == ContextSignal(building, n) + ContextSignal(noise, n)
        contextScore == 5000 + ContextDelta(building, n, tagsArg.building_type)
                             + ContextDelta(noise, n, tagsArg.noise_level)
    IN IF contextSignals > 0
       THEN Max(0, Min(SCALE, contextScore \div contextSignals))
       ELSE 5000

AvoidedHit(pref, size, own) ==
    IF pref # NoPref /\ pref.count >= 1 /\ 10 * pref.count >= 4 * size /\ own = pref.value
    THEN 5000 ELSE 0

DislikedContextPenalty(history, tagsArg) ==
    LET n == Len(history.disliked)
    IN AvoidedHit(TopValue(history.disliked, BuildingOf), n, tagsArg.building_type)
       + AvoidedHit(TopValue(history.disliked, NoiseOf), n, tagsArg.noise_level)

\* listingAvgCommute = sum / length is kept as the pair (sum, length)
CommuteDevLE(total, n, range, pct) == 100 * Abs(total - n * range.avg) <= pct * n * range.avg

CommuteDev(total, n, range) == (Abs(total - n * range.avg) * SCALE) \div (n * range.avg)

\* 5. commute proximity to the liked average (absolute tiers without a baseline)
CommuteRatio(history, commuteTimesArg) ==
    LET n == Len(commuteTimesArg)
        total == SumSeq(commuteTimesArg)
        range == getLikedCommuteRange(history)
    IN IF n > 0 /\ total > 0 /\ range # NoRange
       THEN IF CommuteDevLE(total, n, range, 15) THEN SCALE
            ELSE IF CommuteDevLE(total, n, range, 45)
                 THEN Max(4500, SCALE - ((CommuteDev(total, n, range) - 1500) * 18) \div 10)
            ELSE 2500
       ELSE IF n > 0 /\ total > 0
       THEN IF total <= 25 * n THEN SCALE
            ELSE IF total <= 35 * n THEN 8500
            ELSE IF total <= 45 * n THEN 6500
            ELSE 4000
       ELSE 5000

DislikedCommutePenalty(history, commuteTimesArg) ==
    LET n == Len(commuteTimesArg)
        total == SumSeq(commuteTimesArg)
        range == getDislikedCommuteRange(history)
        raw == IF CommuteDevLE(total, n, range, 12) THEN SCALE
               ELSE IF CommuteDevLE(total, n, range, 35)
                    THEN 8500 - ((CommuteDev(total, n, range) - 1200) * 12) \div 10
               ELSE IF CommuteDevLE(total, n, range, 55)
                    THEN 5000 - (CommuteDev(total, n, range) - 3500)
               ELSE 0
    IN IF n > 0 /\ total > 0 /\ range # NoRange THEN Max(0, Min(SCALE, raw)) ELSE 0

\* quiz nudges, in hundredths
ExplicitBoost(quiz, history, tagsArg, priceArg, priceTypeArg, commuteTimesArg) ==
    LET n == Len(commuteTimesArg)
        total == SumSeq(commuteTimesArg)
    IN IF quiz = NoQuiz THEN 0
       ELSE (IF quiz.commutePreference = "short" /\ n > 0 /\ total > 0 /\ total <= 25 * n THEN 8 ELSE 0)
          + (IF quiz.commutePreference = "flexible" THEN 2 ELSE 0)
          + (IF quiz.budgetPreference = "save" /\ PriceRatio(history, priceArg, priceTypeArg) >= 8000
             THEN 6 ELSE 0)
          + (IF quiz.budgetPreference = "quality"
             THEN (IF FeatureRatio(history, tagsArg) >= 7500 THEN 5 ELSE 0) + 2 ELSE 0)
          + (IF quiz.stylePreference = "amenities"
                /\ tagsArg.features \cap {"elevator", "doorman", "laundry_in_unit"} # {} THEN 5 ELSE 0)
          + (IF quiz.stylePreference = "quiet" /\ tagsArg.noise_level = "quiet" THEN 5 ELSE 0)

ExplicitPenalty(quiz, history, tagsArg, priceArg, priceTypeArg, commuteTimesArg) ==
    LET n == Len(commuteTimesArg)
        total == SumSeq(commuteTimesArg)
    IN IF quiz = NoQuiz THEN 0
       ELSE (IF quiz.commutePreference = "short" /\ n > 0 /\ total > 25 * n /\ total >= 45 * n
             THEN 8 ELSE 0)
          + (IF quiz.budgetPreference = "save"
                /\ DislikedPricePenalty(history, priceArg, priceTypeArg) >= 6000 THEN 6 ELSE 0)
          + (IF quiz.stylePreference = "amenities"
                /\ tagsArg.features \cap {"elevator", "doorman"} = {} THEN 3 ELSE 0)
          + (IF quiz.stylePreference = "quiet" /\ tagsArg.noise_level = "average" THEN 3 ELSE 0)

\* positiveWeighted + explicitBoost - dislikePenalty - explicitPenalty, in units of 1/(100*SCALE)
WarmWeighted(history, quiz, tagsArg, priceArg, priceTypeArg, commuteTimesArg) ==
    FeatureRatio(history, tagsArg) * 30
    + SubwayRatio(history, tagsArg) * 14
    + PriceRatio(history, priceArg, priceTypeArg) * 18
    + ContextRatio(history, tagsArg) * 13
    + CommuteRatio(history, commuteTimesArg) * 25
    + ExplicitBoost(quiz, history, tagsArg, priceArg, priceTypeArg, commuteTimesArg) * SCALE
    - DislikedFeaturePenalty(history, tagsArg) * 18
    - DislikedSubwayPenalty(history, tagsArg) * 6
    - DislikedPricePenalty(history, priceArg, priceTypeArg) * 8
    - DislikedContextPenalty(history, tagsArg) * 5
    - DislikedCommutePenalty(history, commuteTimesArg) * 12
    - ExplicitPenalty(quiz, history, tagsArg, priceArg, priceTypeArg, commuteTimesArg) * SCALE

\* the warm clamp to 98 dropped
WarmScoreNoUpperClamp(history, quiz, tagsArg, priceArg, priceTypeArg, commuteTimesArg) ==
    LET weighted == Max(0, WarmWeighted(history, quiz, tagsArg, priceArg, priceTypeArg, commuteTimesArg))
    IN Max(55, 55 + RoundDiv(weighted * 43, 100 * SCALE))

\* Math.min(98, Math.max(55, Math.round(55 + Math.max(0, ...) * 43)))
computeWarmScore(history, quiz, tagsArg, priceArg, priceTypeArg, commuteTimesArg) ==
    LET weighted == Max(0, WarmWeighted(history, quiz, tagsArg, priceArg, priceTypeArg, commuteTimesArg))
    IN Min(98, Max(55, 55 + RoundDiv(weighted * 43, 100 * SCALE)))

\* computeMatchScore reads the stored history and quiz answers: they are parameters here
computeMatchScore(history, quiz, tagsArg, priceArg, priceTypeArg, commuteTimesArg) ==
    IF getTotalSwipes(history) < 3
    THEN computeColdStartScore(tagsArg)
    ELSE computeWarmScore(history, quiz, tagsArg, priceArg, priceTypeArg, commuteTimesArg)

----------------------------------------------------------------------------
(* Listings and the pattern top-up fetch (services/rentcast.ts) *)

\* a RentCastListing as the listing source returns it
MkItem(id, beds, baths, sqft, days, price) ==
    [id |-> id, bedrooms |-> beds, bathrooms |-> baths, squareFootage |-> sqft,
     daysOnMarket |-> days, price |-> price]

InitialScoreRaw(item, priceTypeArg) ==
    60
    + (IF item.bedrooms >= 3 THEN 6 ELSE IF item.bedrooms = 2 THEN 4 ELSE IF item.bedrooms = 1 THEN 2 ELSE 0)
    + (IF item.bathrooms >= 2 THEN 4 ELSE IF item.bathrooms >= 1 THEN 2 ELSE 0)
    + (IF item.squareFootage > 0 THEN Min(10, RoundDiv(item.squareFootage, 180)) ELSE 0)
    + (IF item.daysOnMarket > 0 /\ item.daysOnMarket <= 14 THEN 4
       ELSE IF item.daysOnMarket <= 45 THEN 2
       ELSE IF item.daysOnMarket > 120 THEN -2 ELSE 0)
    + (IF item.price > 0
       THEN IF priceTypeArg = "rent"
            THEN (IF item.price <= 3000 THEN 8 ELSE IF item.price <= 4500 THEN 5
                  ELSE IF item.price <= 6500 THEN 2 ELSE -2)
            ELSE (IF item.price <= 800000 THEN 8 ELSE IF item.price <= 1300000 THEN 5
                  ELSE IF item.price <= 2000000 THEN 2 ELSE -2)
       ELSE 0)

\* Math.min(88, Math.max(55, Math.round(score)))
computeInitialListingScore(item, priceTypeArg) == Min(88, Max(55, InitialScoreRaw(item, priceTypeArg)))

\* the Listing fields the ranking reads or writes
transformToListing(item, priceTypeArg) ==
    [id |-> item.id, price |-> item.price, priceType |-> priceTypeArg,
     commuteTimes |-> <<>>, matchExplanation |-> "initial",
     matchScore |-> computeInitialListingScore(item, priceTypeArg)]

Take(s, n) == SubSeq(s, 1, Min(n, Len(s)))

RECURSIVE Concat(_)
Concat(ss) == IF ss = <<>> THEN <<>> ELSE Head(ss) \o Concat(Tail(ss))

\* keep the first item of every id, in order
DedupeById(s, seen) ==
    LET First(i) == s[i].id \notin seen /\ \A j \in 1..(i - 1) : s[j].id # s[i].id
        kept == SelectSeq([i \in 1..Len(s) |-> i], First)
    IN [k \in 1..Len(kept) |-> s[kept[k]]]

\* the i-th items of the batches that have one, batch by batch
RECURSIVE Interleave(_, _, _)
Interleave(batches, i, maxLen) ==
    IF i > maxLen THEN <<>>
    ELSE LET HasIth(b) == Len(b) >= i
             Ith(b) == b[i]
         IN MapSeq(FilterSeq(batches, HasIth), Ith) \o Interleave(batches, i + 1, maxLen)

fetchAcrossCitiesNoBackfill(cityBatches, totalLimit) ==
    IF Len(cityBatches) = 1 THEN cityBatches[1]
    ELSE LET maxBatchLen == IF cityBatches = <<>> THEN 0
                            ELSE MaxSeq([c \in 1..Len(cityBatches) |-> Len(cityBatches[c])])
             interleaved == Take(Interleave(cityBatches, 1, maxBatchLen), totalLimit)
         IN Take(DedupeById(interleaved, {}), totalLimit)

\* fetchAcrossCities: cityBatches[c] is what the source returns for city c
\* (the empty batch when that request fails)
fetchAcrossCities(cityBatches, totalLimit) ==
    IF Len(cityBatches) = 1 THEN cityBatches[1]
    ELSE LET maxBatchLen == IF cityBatches = <<>> THEN 0
                            ELSE MaxSeq([c \in 1..Len(cityBatches) |-> Len(cityBatches[c])])
             interleaved == Take(Interleave(cityBatches, 1, maxBatchLen), totalLimit)
             deduped == Take(DedupeById(interleaved, {}), totalLimit)
         IN IF Len(deduped) < totalLimit
            THEN Take(DedupeById(deduped \o Concat(cityBatches), {}), totalLimit)
            ELSE deduped

\* rankPatternCandidate: the provisional score moved by the price bands
rankPatternCandidate(history, listing) ==
    LET liked == getLikedPriceRange(history, listing.priceType)
        disliked == getDislikedPriceRange(history, listing.priceType)
        likedNum == OutsideNum(listing.price, liked)
        dislikedNum == OutsideNum(listing.price, disliked)
    IN IF listing.price <= 0 THEN listing.matchScore
       ELSE listing.matchScore
            + (IF liked = NoRange THEN 0
               ELSE IF likedNum = 0 THEN 12
               ELSE IF 100 * likedNum <= 15 * OutsideDen(liked) THEN 8
               ELSE IF 100 * likedNum <= 35 * OutsideDen(liked) THEN 3
               ELSE -6)
            - (IF disliked = NoRange THEN 0
               ELSE IF dislikedNum = 0 THEN 10
               ELSE IF 100 * dislikedNum <= 12 * OutsideDen(disliked) THEN 6
               ELSE IF 100 * dislikedNum <= 30 * OutsideDen(disliked) THEN 3
               ELSE 0)

\* Array.prototype.sort((a, b) => key(b) - key(a)) on [key, item] pairs: stable, descending
SortPairsDesc(s) ==
    LET Before(i) == {j \in 1..Len(s) : s[j].key > s[i].key \/ (s[j].key = s[i].key /\ j < i)}
        At(p) == CHOOSE i \in 1..Len(s) : Cardinality(Before(i)) = p - 1
    IN [p \in 1..Len(s) |-> s[At(p)]]

SortByScoreDesc(ls) ==
    LET sorted == SortPairsDesc([i \in 1..Len(ls) |-> [key |-> ls[i].matchScore, item |-> ls[i]]])
    IN [i \in 1..Len(ls) |-> sorted[i].item]

SortByRankDesc(history, ls) ==
    LET sorted == SortPairsDesc([i \in 1..Len(ls) |-> [key |-> rankPatternCandidate(history, ls[i]), item |-> ls[i]]])
    IN [i \in 1..Len(ls) |-> sorted[i].item]

\* the raw candidates that are neither excluded nor a repeat
DedupCandidatesKeepRepeats(rawCandidates, excludeIds) ==
    LET Allowed(c) == c.item.id \notin excludeIds IN FilterSeq(rawCandidates, Allowed)

DedupCandidates(rawCandidates, excludeIds) ==
    LET ById(c) == [id |-> c.item.id, cand |-> c]
        Cand(x) == x.cand
    IN MapSeq(DedupeById(MapSeq(rawCandidates, ById), excludeIds), Cand)

\* candidatePoolLimit and the seed width
CandidatePoolLimit(targetCount) == Max(targetCount * 6, 60)
SeedWidth(targetCount) == Max(targetCount * 4, 40)

\* the seed: transformed candidates ranked by rankPatternCandidate, cut to the seed width
PatternSeed(history, priceTypeArg, rentalBatches, saleBatches, excludeIds, targetCount) ==
    LET Rent(item) == [item |-> item, priceType |-> "rent"]
        Buy(item) == [item |-> item, priceType |-> "buy"]
        rentals == IF priceTypeArg \in {"rent", "both"}
                   THEN MapSeq(fetchAcrossCities(rentalBatches, CandidatePoolLimit(targetCount)), Rent)
                   ELSE <<>>
        sales == IF priceTypeArg \in {"buy", "both"}
                 THEN MapSeq(fetchAcrossCities(saleBatches, CandidatePoolLimit(targetCount)), Buy)
                 ELSE <<>>
        Transform(c) == transformToListing(c.item, c.priceType)
        transformed == MapSeq(DedupCandidates(rentals \o sales, excludeIds), Transform)
    IN Take(SortByRankDesc(history, transformed), SeedWidth(targetCount))

\* enrichListing: outcome.ok = FALSE is any failure inside the try block, and the
\* raw listing is returned; otherwise the commute service and the tag extraction
\* answered outcome.commuteTimes and outcome.tags
FailedOutcome == [ok |-> FALSE]
OkOutcome(t, c) == [ok |-> TRUE, tags |-> t, commuteTimes |-> c]

enrichListingResetsScore(history, quiz, listing, outcome) ==
    IF ~outcome.ok THEN [listing EXCEPT !.matchScore = 0]
    ELSE LET commuteTimesNow == IF Len(outcome.commuteTimes) > 0 THEN outcome.commuteTimes
                                ELSE listing.commuteTimes
         IN [listing EXCEPT !.commuteTimes = commuteTimesNow,
                            !.matchExplanation = "enriched",
                            !.matchScore = computeMatchScore(history, quiz, outcome.tags, listing.price,
                                                             listing.priceType, commuteTimesNow)]

enrichListing(history, quiz, listing, outcome) ==
    IF ~outcome.ok THEN listing
    ELSE LET commuteTimesNow == IF Len(outcome.commuteTimes) > 0 THEN outcome.commuteTimes
                                ELSE listing.commuteTimes
         IN [listing EXCEPT !.commuteTimes = commuteTimesNow,
                            !.matchExplanation = "enriched",
                            !.matchScore = computeMatchScore(history, quiz, outcome.tags, listing.price,
                                                             listing.priceType, commuteTimesNow)]

\* enriched.sort((a, b) => b.matchScore - a.matchScore).slice(0, targetCount)
PatternSelectNoCut(enriched, targetCount) == SortByScoreDesc(enriched)

PatternSelect(enriched, targetCount) == Take(SortByScoreDesc(enriched), targetCount)

----------------------------------------------------------------------------
(* The Scoring Engine as a state machine: swipes are recorded, the quiz is    *)
(* answered at most once, and computeMatchScore is called on bounded inputs.  *)

MaxHistory == 3

AllAmenities == MkTags(BooleanKeys, {"A", "C", "E"}, "quiet", "elevator")
NoAmenities == MkTags({}, {}, "average", "walkup")
ElevatorOnly == MkTags({"elevator"}, {"A"}, "unknown", "unknown")
NeutralTags == MkTags({}, {}, "unknown", "unknown")

TagChoices == {AllAmenities, NoAmenities, ElevatorOnly, NeutralTags}

EntryChoices == {MkEntry(AllAmenities, 2000, "rent", 20),
                 MkEntry(NoAmenities, 4000, "rent", 50),
                 MkEntry(ElevatorOnly, 0, "rent", 0)}

QuizChoices == {MkQuiz("short", "save", "amenities"), MkQuiz("flexible", "quality", "quiet")}

PriceChoices == {0, 2000, 2300, 4000}

CommuteChoices == {<<>>, <<20>>, <<30, 60>>}

NoCall == [none |-> TRUE]

NoInput == [none |-> TRUE]

PatOff ==
    /\ patIn = NoInput
    /\ patSeed = <<>>
    /\ patEnriched = <<>>
    /\ patResult = <<>>
    /\ patPc = "off"

FeedOff ==
    /\ filterKey = NoInput
    /\ listings = <<>>
    /\ listingsRef = <<>>
    /\ updateQueue = <<>>
    /\ currentIndex = 0
    /\ rescoreRunRef = 0
    /\ patternFetchInFlightRef = FALSE
    /\ patternBatchCountRef = 0
    /\ autoTopupAttemptsRef = 0
    /\ hasPromptedQuizRef = FALSE
    /\ showPreferenceQuiz = FALSE
    /\ isFindingPatternMatches = FALSE
    /\ savedListings = <<>>
    /\ sessionMeta = <<>>
    /\ tagsCache = {}
    /\ pendingSwipes = {}
    /\ topups = {}
    /\ sessionCache = <<>>
    /\ commit = NoInput
    /\ lastRender = NoInput
    /\ swipeLog = NoInput
    /\ topupCount = 0
    /\ filterChanges = 0
    /\ emptyTopups = 0

DiskOff == storedHistory = NoInput /\ storeOp = NoInput

RawOff == rawCall = NoInput

TagsOff == groq = NoInput /\ tagsCall = NoInput /\ memTags = <<>> /\ diskTags = <<>>

EnrichOff == enrichCall = NoInput

MonOff == monitoringEventQueue = <<>> /\ monitorCalls = NoInput

AuxOff == DiskOff /\ nextCall = NoCall /\ RawOff /\ TagsOff /\ EnrichOff /\ MonOff

ScoreInit ==
    /\ swipeHistory = EmptyHistory
    /\ quizAnswers = NoQuiz
    /\ lastCall = NoCall
    /\ PatOff
    /\ FeedOff
    /\ AuxOff

\* recordSwipe(tags, direction, price, priceType, commuteMinutes)
ScoreRecordSwipe ==
    /\ lastCall = NoCall
    /\ getTotalSwipes(swipeHistory) < MaxHistory
    /\ \E e \in EntryChoices, direction \in {"left", "right"} :
           swipeHistory' = recordSwipe(swipeHistory, e.tags, direction, e.price, e.priceType, e.commuteMinutes)
    /\ UNCHANGED <<quizAnswers, lastCall, patVars, auxVars, feedVars>>

\* savePreferenceQuizAnswers(answers)
ScoreSaveQuiz ==
    /\ lastCall = NoCall
    /\ quizAnswers = NoQuiz
    /\ \E q \in QuizChoices : quizAnswers' = q
    /\ UNCHANGED <<swipeHistory, lastCall, patVars, auxVars, feedVars>>

\* computeMatchScore(tags, price, priceType, commuteTimes)
ScoreCall ==
    /\ lastCall = NoCall
    /\ \E t \in TagChoices, p \in PriceChoices, pt \in {"rent", "buy"}, c \in CommuteChoices :
           lastCall' = [tags |-> t, price |-> p, priceType |-> pt, commuteTimes |-> c,
                        totalSwipes |-> getTotalSwipes(swipeHistory),
                        score |-> computeMatchScore(swipeHistory, quizAnswers, t, p, pt, c)]
    /\ UNCHANGED <<storeVars, patVars, auxVars, feedVars>>

\* a tags object as the tag extraction may return it: the keys in missing are
\* not there.  A missing boolean key reads as undefined (not true); a missing
\* noise_level or building_type reads as undefined, which is neither "unknown"
\* nor any known value
WithoutKeys(tagsArg, missing) ==
    [features |-> tagsArg.features \ missing,
     near_subway_lines |-> tagsArg.near_subway_lines,
     noise_level |-> IF "noise_level" \in missing THEN "undefined" ELSE tagsArg.noise_level,
     building_type |-> IF "building_type" \in missing THEN "undefined" ELSE tagsArg.building_type]

\* computeMatchScore on such an object: tags.near_subway_lines.length (cold) and
\* tags.near_subway_lines.filter (warm) raise a TypeError when the key is missing
computeMatchScoreOn(history, quiz, tagsArg, missing, priceArg, priceTypeArg, commuteTimesArg) ==
    IF "near_subway_lines" \in missing THEN [threw |-> TRUE, score |-> 0]
    ELSE [threw |-> FALSE,
          score |-> computeMatchScore(history, quiz, WithoutKeys(tagsArg, missing), priceArg,
                                      priceTypeArg, commuteTimesArg)]

\* the keys of a tags object that hold their default (false, [], "unknown"):
\* leaving one of them out is the malformed form of the same listing
DefaultKeys(tagsArg) ==
    {k \in {"doorman", "near_subway_lines", "noise_level", "building_type"} :
        \/ k = "doorman" /\ "doorman" \notin tagsArg.features
        \/ k = "near_subway_lines" /\ tagsArg.near_subway_lines = {}
        \/ k = "noise_level" /\ tagsArg.noise_level = "unknown"
        \/ k = "building_type" /\ tagsArg.building_type = "unknown"}

\* computeMatchScore called a second time with the arguments of lastCall
ScoreCallAgainCounting ==
    /\ lastCall # NoCall
    /\ nextCall = NoCall
    /\ swipeHistory' = recordSwipe(swipeHistory, lastCall.tags, "right", lastCall.price,
                                   lastCall.priceType, 0)
    /\ nextCall' = [kind |-> "repeat", missing |-> {}, threw |-> FALSE,
                    score |-> computeMatchScore(swipeHistory', quizAnswers, lastCall.tags, lastCall.price,
                                                lastCall.priceType, lastCall.commuteTimes)]
    /\ UNCHANGED <<quizAnswers, scoreVars, patVars, feedVars, diskVars, rawVars, enrichVars, monVars, tagVars>>

ScoreCallAgain ==
    /\ lastCall # NoCall
    /\ nextCall = NoCall
    /\ nextCall' = [kind |-> "repeat", missing |-> {}, threw |-> FALSE,
                    score |-> computeMatchScore(swipeHistory, quizAnswers, lastCall.tags, lastCall.price,
                                                lastCall.priceType, lastCall.commuteTimes)]
    /\ UNCHANGED <<storeVars, scoreVars, patVars, feedVars, diskVars, rawVars, enrichVars, monVars, tagVars>>

\* computeMatchScore called with the arguments of lastCall, one default key left out
ScoreCallMalformed ==
    /\ lastCall # NoCall
    /\ nextCall = NoCall
    /\ \E k \in DefaultKeys(lastCall.tags) :
           LET r == computeMatchScoreOn(swipeHistory, quizAnswers, lastCall.tags, {k}, lastCall.price,
                                        lastCall.priceType, lastCall.commuteTimes)
           IN nextCall' = [kind |-> "malformed", missing |-> {k}, threw |-> r.threw, score |-> r.score]
    /\ UNCHANGED <<storeVars, scoreVars, patVars, feedVars, diskVars, rawVars, enrichVars, monVars, tagVars>>

ScoreNext == ScoreRecordSwipe \/ ScoreSaveQuiz \/ ScoreCall \/ ScoreCallAgain \/ ScoreCallMalformed

SpecScore == ScoreInit /\ [][ScoreNext]_vars

C16_MalformedTagsScoredAsDefaults ==
    (nextCall # NoCall /\ nextCall.kind = "malformed") =>
        ~nextCall.threw /\ nextCall.score = lastCall.score

\* C19: in a warm call the feature-overlap ratio is the share of the liked
\* feature-affinity set (the keys true in at least 40% of the liked entries,
\* as getLikedFeatures returns them) that the listing has
C19_FeatureRatioUsesLikedAffinity ==
    (lastCall # NoCall /\ lastCall.totalSwipes >= 3) =>
        LET affinity == getLikedFeatures(swipeHistory)
        IN FeatureRatio(swipeHistory, lastCall.tags)
               = IF affinity # {}
                 THEN RoundDiv(Cardinality(affinity \cap lastCall.tags.features) * SCALE, Cardinality(affinity))
                 ELSE 5000

ColdNeutralCall == lastCall # NoCall /\ lastCall.totalSwipes = 0 /\ lastCall.tags = NeutralTags

InsideExpanded(commuteTimesArg, range) ==
    LET n == Len(commuteTimesArg)
        total == SumSeq(commuteTimesArg)
    IN 20 * total >= 19 * range.min * n /\ 20 * total <= 21 * range.max * n

\* C24: in a warm call with a liked commute range, a listing whose average
\* commute lies inside the liked range widened by 5% has range-distance ratio
\* 0 and gets the top commute band (ratio 1), however far apart the liked
\* commutes are
C24_CommuteInsideRangeTopBand ==
    (lastCall # NoCall /\ getTotalSwipes(swipeHistory) >= 3
        /\ getLikedCommuteRange(swipeHistory) # NoRange
        /\ SumSeq(lastCall.commuteTimes) > 0
        /\ InsideExpanded(lastCall.commuteTimes, getLikedCommuteRange(swipeHistory)))
    => CommuteRatio(swipeHistory, lastCall.commuteTimes) = SCALE

\* the liked entries with their noise level hidden: the building type is the
\* only context preference such a history can establish
BuildingOnly(history) ==
    [liked |-> [i \in 1..Len(history.liked) |->
                   [history.liked[i] EXCEPT !.tags.noise_level = "unknown"]],
     disliked |-> history.disliked]

\* the listing has the value of every established context preference
MatchesContext(history, tagsArg) ==
    LET n == Len(history.liked)
        building == TopValue(history.liked, BuildingOf)
        noise == TopValue(history.liked, NoiseOf)
    IN /\ ContextSignal(building, n) + ContextSignal(noise, n) > 0
       /\ ContextSignal(building, n) = 1 => tagsArg.building_type = building.value
       /\ ContextSignal(noise, n) = 1 => tagsArg.noise_level = noise.value

\* C36: in a warm call a listing that matches every established context
\* preference (preferred building type, preferred noise level) has context
\* ratio 1.0, and matching both is never worth less than matching the
\* building type when that is the only established preference
C36_MatchingContextIsMax ==
    (lastCall # NoCall /\ lastCall.totalSwipes >= 3
        /\ MatchesContext(swipeHistory, lastCall.tags))
    => /\ ContextRatio(swipeHistory, lastCall.tags) = SCALE
       /\ MatchesContext(BuildingOnly(swipeHistory), lastCall.tags) =>
              ContextRatio(swipeHistory, lastCall.tags)
                  >= ContextRatio(BuildingOnly(swipeHistory), lastCall.tags)

----------------------------------------------------------------------------
(* computeMatchScore on prepared warm histories: three likes whose prices     *)
(* spread over several ranges, and three to MaxLikes likes that all have an   *)
(* elevator and nothing else.                                                 *)

MaxLikes == 5

PriceSamples == {0, 2000, 2400, 3000, 3600}

PricedLikes(p1, p2, p3, pt3) ==
    [liked |-> <<MkEntry(NeutralTags, p1, "rent", 0), MkEntry(NeutralTags, p2, "rent", 0),
                 MkEntry(NeutralTags, p3, pt3, 0)>>,
     disliked |-> <<>>]

ElevatorLike(p, c) == MkEntry(MkTags({"elevator"}, {}, "unknown", "unknown"), p, "rent", c)

ElevatorLikes(n, p, c) == [liked |-> [i \in 1..n |-> ElevatorLike(p, c)], disliked |-> <<>>]

WarmHistories ==
    {PricedLikes(p1, p2, p3, pt3) : p1 \in PriceSamples, p2 \in PriceSamples, p3 \in PriceSamples,
                                    pt3 \in {"rent", "buy"}}
    \cup {ElevatorLikes(n, p, c) : n \in 3..MaxLikes, p \in {0, 2000}, c \in {0, 20}}

WarmInit ==
    /\ swipeHistory \in WarmHistories
    /\ quizAnswers = NoQuiz
    /\ lastCall = NoCall
    /\ PatOff
    /\ FeedOff
    /\ AuxOff

WarmNext == ScoreCall

SpecWarm == WarmInit /\ [][WarmNext]_vars

LikedPricesOf(pt) == derivePriceRange(swipeHistory.liked, pt)

\* C25: with a liked price range of at least 2 samples of the listing's
\* priceType, a price inside [0.95 * min, 1.05 * max] gets a price ratio in
\* [0.78, 1], a price whose outside-distance ratio exceeds 0.35 gets one in
\* [0.10, 0.40], and the bands in between give 0.72 and 0.52, so the ratio
\* never rises from an inner band to an outer one
C25_PriceBands ==
    (lastCall # NoCall /\ lastCall.totalSwipes >= 3 /\ lastCall.price > 0
        /\ LikedPricesOf(lastCall.priceType) # NoRange)
    => LET range == LikedPricesOf(lastCall.priceType)
           num == OutsideNum(lastCall.price, range)
           den == OutsideDen(range)
           ratio == PriceRatio(swipeHistory, lastCall.price, lastCall.priceType)
       IN /\ num = 0 => (7800 <= ratio /\ ratio <= SCALE)
          /\ (0 < num /\ 100 * num <= 15 * den) => ratio = 7200
          /\ (15 * den < 100 * num /\ 100 * num <= 35 * den) => ratio = 5200
          /\ 35 * den < 100 * num => (1000 <= ratio /\ ratio <= 4000)
          /\ (range.min = 2000 /\ range.max = 2400 /\ range.avg = 2200) =>
                 /\ lastCall.price = 2300 => ratio >= 7800
                 /\ lastCall.price = 4000 => (1000 <= ratio /\ ratio <= 4000)

\* liked 2000 and 2400, a listing at 4000 scored in the lowest band
C25_Witness ==
    /\ lastCall # NoCall
    /\ lastCall.totalSwipes >= 3
    /\ lastCall.price = 4000
    /\ LikedPricesOf(lastCall.priceType) = [min |-> 2000, max |-> 2400, avg |-> 2200]
    /\ PriceRatio(swipeHistory, lastCall.price, lastCall.priceType) < 4000

AllElevatorLikes(history) ==
    /\ Len(history.liked) >= 3
    /\ history.disliked = <<>>
    /\ \A i \in 1..Len(history.liked) :
           history.liked[i].tags = MkTags({"elevator"}, {}, "unknown", "unknown")

WithElevator(tagsArg) == [tagsArg EXCEPT !.features = @ \cup {"elevator"}]
WithoutElevator(tagsArg) == [tagsArg EXCEPT !.features = @ \ {"elevator"}]

ScoreOfTags(tagsArg) ==
    computeMatchScore(swipeHistory, quizAnswers, tagsArg, lastCall.price, lastCall.priceType,
                      lastCall.commuteTimes)

\* C26: with only likes (3 or more, e.g. 5), all with an elevator and
\* otherwise neutral, and no quiz answers, a listing scores strictly higher
\* with elevator = true than the same listing with elevator = false
C26_ElevatorRaisesWarmScore ==
    (lastCall # NoCall /\ quizAnswers = NoQuiz /\ AllElevatorLikes(swipeHistory)) =>
        /\ ScoreOfTags(WithElevator(lastCall.tags)) > ScoreOfTags(WithoutElevator(lastCall.tags))
        /\ lastCall.score = ScoreOfTags(lastCall.tags)

\* five elevator likes, an elevator-only listing scored
C26_Witness ==
    /\ lastCall # NoCall
    /\ AllElevatorLikes(swipeHistory)
    /\ Len(swipeHistory.liked) = 5
    /\ lastCall.tags = ElevatorOnly
    /\ lastCall.score > ScoreOfTags(WithoutElevator(ElevatorOnly))

----------------------------------------------------------------------------
(* fetchPatternMatchedListings as a state machine: the candidates are fetched *)
(* and ranked, the seed is enriched one listing at a time, the best are       *)
(* returned.                                                                  *)

MaxTarget == 2

RawItems == {MkItem(1, 2, 1, 900, 10, 2000),
             MkItem(2, 0, 0, 0, 200, 7000),
             MkItem(3, 3, 2, 2000, 30, 4000),
             MkItem(4, 1, 1, 500, 60, 2300),
             MkItem(5, 2, 2, 1200, 5, 3500)}

ItemOf(id) == CHOOSE item \in RawItems : item.id = id

ItemsOf(ids) == [i \in 1..Len(ids) |-> ItemOf(ids[i])]

BatchesOf(idBatches) == [c \in 1..Len(idBatches) |-> ItemsOf(idBatches[c])]

\* what the listing source returns per city: one city with a repeated id,
\* several cities with overlapping, disjoint and empty batches
SourceChoices == {BatchesOf(<<<<1, 1, 2>>>>),
                  BatchesOf(<<<<1, 2>>, <<2, 3>>>>),
                  BatchesOf(<<<<3>>, <<>>>>),
                  BatchesOf(<<<<2, 1>>, <<3, 1>>, <<1>>>>),
                  BatchesOf(<<<<>>, <<>>>>)}

WarmHistory ==
    [liked |-> <<MkEntry(AllAmenities, 2000, "rent", 20), MkEntry(ElevatorOnly, 2400, "rent", 30)>>,
     disliked |-> <<MkEntry(NoAmenities, 4000, "rent", 50), MkEntry(NoAmenities, 4200, "rent", 60)>>]

EnrichOutcomes == {FailedOutcome, OkOutcome(AllAmenities, <<20>>), OkOutcome(NoAmenities, <<>>)}

\* a listing source with more inventory than one candidate pool: two cities
\* whose batches share ten listings
MaxWideTarget == 11
WidePoolSize == 70

WideItem(id) ==
    MkItem(id, id % 4, 1 + (id % 2), 400 + 150 * (id % 9), (id * 7) % 130, 1600 + 300 * (id % 17))

WideBatch(first, last) == [i \in 1..(last - first + 1) |-> WideItem(first + i - 1)]

WideSource == <<WideBatch(11, 50), WideBatch(41, 10 + WidePoolSize)>>

\* what the enrichment services answer for a listing of the wide source
WideOutcomeOf(id) ==
    IF id % 7 = 0 THEN FailedOutcome
    ELSE OkOutcome(CASE id % 3 = 0 -> AllAmenities
                     [] id % 3 = 1 -> NoAmenities
                     [] OTHER -> ElevatorOnly,
                   <<10 + ((id * 11) % 50)>>)

\* the answers enrichListing can meet for a listing: any for the listings of
\* the small sources, the fixed one for a listing of the wide source
EnrichOutcomesOf(listing) ==
    IF \E item \in RawItems : item.id = listing.id THEN EnrichOutcomes
    ELSE {WideOutcomeOf(listing.id)}

PatternInit ==
    /\ swipeHistory \in {EmptyHistory, WarmHistory}
    /\ quizAnswers = NoQuiz
    /\ lastCall = NoCall
    /\ patIn \in [priceType : {"rent", "buy", "both"},
                  rentalBatches : SourceChoices,
                  saleBatches : SourceChoices,
                  excludeIds : SUBSET {1, 2, 3},
                  targetCount : 1..MaxTarget]
    /\ patSeed = <<>>
    /\ patEnriched = <<>>
    /\ patResult = <<>>
    /\ patPc = "start"
    /\ FeedOff
    /\ AuxOff

\* the source answers; the candidates are de-duplicated, transformed and ranked
PatternFetchCandidates ==
    /\ patPc = "start"
    /\ patSeed' = PatternSeed(swipeHistory, patIn.priceType, patIn.rentalBatches, patIn.saleBatches,
                              patIn.excludeIds, patIn.targetCount)
    /\ patPc' = IF patSeed' = <<>> THEN "done" ELSE "enriching"
    /\ UNCHANGED <<patIn, patEnriched, patResult, storeVars, scoreVars, feedVars, auxVars>>

\* for (const listing of rankedSeed) enriched.push(await enrichListing(listing))
PatternEnrichNext ==
    /\ patPc = "enriching"
    /\ Len(patEnriched) < Len(patSeed)
    /\ \E outcome \in EnrichOutcomesOf(patSeed[Len(patEnriched) + 1]) :
           patEnriched' = Append(patEnriched,
                                 enrichListing(swipeHistory, quizAnswers,
                                               patSeed[Len(patEnriched) + 1], outcome))
    /\ UNCHANGED <<patIn, patSeed, patResult, patPc, storeVars, scoreVars, feedVars, auxVars>>

\* return enriched.sort(...).slice(0, targetCount)
PatternReturn ==
    /\ patPc = "enriching"
    /\ Len(patEnriched) = Len(patSeed)
    /\ patResult' = PatternSelect(patEnriched, patIn.targetCount)
    /\ patPc' = "done"
    /\ UNCHANGED <<patIn, patSeed, patEnriched, storeVars, scoreVars, feedVars, auxVars>>

PatternNext == PatternFetchCandidates \/ PatternEnrichNext \/ PatternReturn

SpecPattern == PatternInit /\ [][PatternNext]_vars

\* the same fetch against the wide source
WideInit ==
    /\ swipeHistory \in {EmptyHistory, WarmHistory}
    /\ quizAnswers = NoQuiz
    /\ lastCall = NoCall
    /\ patIn \in [priceType : {"rent"},
                  rentalBatches : {WideSource},
                  saleBatches : {BatchesOf(<<<<>>, <<>>>>)},
                  excludeIds : {{}, {11, 12, 13}},
                  targetCount : {MaxTarget, MaxWideTarget}]
    /\ patSeed = <<>>
    /\ patEnriched = <<>>
    /\ patResult = <<>>
    /\ patPc = "start"
    /\ FeedOff
    /\ AuxOff

SpecPatternWide == WideInit /\ [][PatternNext]_vars

IdsOf(ls) == {ls[i].id : i \in 1..Len(ls)}
NoRepeatedId(ls) == \A i, j \in 1..Len(ls) : ls[i].id = ls[j].id => i = j

\* C6: the result of fetchPatternMatchedListings holds no excluded id, no id
\* twice and at most targetCount listings, whatever the source returned
C6_NoExcludedNoDuplicate ==
    patPc = "done" =>
        /\ IdsOf(patResult) \cap patIn.excludeIds = {}
        /\ NoRepeatedId(patResult)
        /\ Len(patResult) <= patIn.targetCount

\* a finished fetch whose source returned a repeated id and an excluded id,
\* and whose seed was wider than the target
C6_Witness ==
    /\ patPc = "done"
    /\ patIn.priceType = "both"
    /\ patIn.excludeIds = {2}
    /\ patIn.rentalBatches = BatchesOf(<<<<1, 1, 2>>>>)
    /\ Len(patSeed) > patIn.targetCount
    /\ Len(patResult) = patIn.targetCount

C30_PoolSeedAndTopSelection ==
    LET target == patIn.targetCount
        returned == IdsOf(patResult)
    IN /\ CandidatePoolLimit(target) >= 6 * target
       /\ Len(patSeed) <= Max(4 * target, 40)
       /\ (patPc = "done" /\ patSeed # <<>>) =>
             /\ Len(patResult) = Min(target, Len(patEnriched))
             /\ \A k \in 1..Len(patResult) : \E i \in 1..Len(patEnriched) : patResult[k] = patEnriched[i]
             /\ \A k \in 1..(Len(patResult) - 1) : patResult[k].matchScore >= patResult[k + 1].matchScore
             /\ \A i \in 1..Len(patEnriched) : \A k \in 1..Len(patResult) :
                    patEnriched[i].id \notin returned
                        => patEnriched[i].matchScore <= patResult[k].matchScore

\* a finished fetch against the wide source: the pool was cut to its limit, the
\* seed to its width, and the members returned are not the first of the seed
C30_Witness ==
    /\ patPc = "done"
    /\ patIn.targetCount = MaxWideTarget
    /\ Len(fetchAcrossCities(patIn.rentalBatches, CandidatePoolLimit(patIn.targetCount)))
           = CandidatePoolLimit(patIn.targetCount)
    /\ Len(patSeed) = SeedWidth(patIn.targetCount)
    /\ Len(patResult) = patIn.targetCount
    /\ IdsOf(patResult) # IdsOf(Take(patSeed, patIn.targetCount))
    /\ \E i \in 1..Len(patEnriched) :
          /\ patEnriched[i].id \notin IdsOf(patResult)
          /\ patEnriched[i].matchExplanation = "enriched"

----------------------------------------------------------------------------
(* The Signal Store on disk (services/groq.ts).  storedHistory is the value   *)
(* of localStorage "swipeHistory" before JSON.parse: missing, unparseable, or *)
(* an object whose partitions may be absent and hold either SwipeEntry        *)
(* objects (current format) or plain ListingTags objects (legacy format).     *)
(* getSwipeHistory parses and normalises it on every read; recordSwipe reads, *)
(* pushes and writes back in the current format.                              *)

NoStored == [kind |-> "null"]
CorruptStored == [kind |-> "corrupt"]

\* one element of a stored partition: "entry" has a tags key, "tags" is a plain tag object
AsEntry(e) == [fmt |-> "entry", value |-> e]
AsTags(t) == [fmt |-> "tags", value |-> t]

AbsentPart == [present |-> FALSE, items |-> <<>>]
Part(items) == [present |-> TRUE, items |-> items]

StoredObject(likedPart, dislikedPart) == [kind |-> "object", liked |-> likedPart, disliked |-> dislikedPart]

\* JSON.stringify(history) of a SwipeHistory
ToDisk(history) == StoredObject(Part(MapSeq(history.liked, AsEntry)), Part(MapSeq(history.disliked, AsEntry)))

\* normalizeEntry: an element with tags is kept, a plain tag object gets the defaults
normalizeEntry(x) == IF x.fmt = "entry" THEN x.value ELSE MkEntry(x.value, 0, "rent", 0)

\* the migration branch wraps every element as the tags of a new entry
migrateEntryAsSale(x) == MkEntry(x.value, 0, "buy", 0)

migrateEntry(x) == MkEntry(x.value, 0, "rent", 0)

\* getSwipeHistory: a missing or unparseable value, and any exception while
\* normalising (parsed.disliked.map on an absent partition), give the empty history
getSwipeHistory(stored) ==
    IF stored.kind # "object" THEN EmptyHistory
    ELSE IF stored.liked.present /\ Len(stored.liked.items) > 0 /\ stored.liked.items[1].fmt # "entry"
    THEN IF ~stored.disliked.present THEN EmptyHistory
         ELSE [liked |-> MapSeq(stored.liked.items, migrateEntry),
               disliked |-> MapSeq(stored.disliked.items, migrateEntry)]
    ELSE [liked |-> IF stored.liked.present THEN MapSeq(stored.liked.items, normalizeEntry) ELSE <<>>,
          disliked |-> IF stored.disliked.present THEN MapSeq(stored.disliked.items, normalizeEntry) ELSE <<>>]

\* recordSwipe on the stored value: read, push, write back
recordSwipeOnDisk(stored, tagsArg, direction, priceArg, priceTypeArg, commuteMinutes) ==
    ToDisk(recordSwipe(getSwipeHistory(stored), tagsArg, direction, priceArg, priceTypeArg, commuteMinutes))

PriceTypeArgs == {"any", "rent", "buy"}

\* every derived signal of a history, as the exported readers return them
DerivedSignals(history) ==
    [likedPriceRange |-> [pt \in PriceTypeArgs |-> getLikedPriceRange(history, pt)],
     dislikedPriceRange |-> [pt \in PriceTypeArgs |-> getDislikedPriceRange(history, pt)],
     likedCommuteRange |-> getLikedCommuteRange(history),
     dislikedCommuteRange |-> getDislikedCommuteRange(history),
     likedFeatures |-> getLikedFeatures(history),
     dislikedFeatures |-> getDislikedFeatures(history),
     likedSubwayLines |-> getLikedSubwayLines(history),
     dislikedSubwayLines |-> getDislikedSubwayLines(history)]

StoreEntryChoices == EntryChoices \cup {MkEntry(NeutralTags, 2300, "buy", 35)}

\* what may be on disk when the page loads
StoredChoices ==
    {NoStored, CorruptStored,
     ToDisk(EmptyHistory),
     StoredObject(Part(<<AsEntry(MkEntry(AllAmenities, 2000, "rent", 20))>>), AbsentPart),
     StoredObject(AbsentPart, Part(<<AsEntry(MkEntry(NoAmenities, 4000, "rent", 50))>>)),
     StoredObject(Part(<<AsTags(AllAmenities), AsTags(ElevatorOnly)>>), Part(<<AsTags(NoAmenities)>>)),
     StoredObject(Part(<<>>), Part(<<AsTags(NoAmenities), AsTags(ElevatorOnly)>>)),
     StoredObject(Part(<<AsTags(AllAmenities), AsTags(ElevatorOnly)>>), AbsentPart),
     StoredObject(AbsentPart, Part(<<AsTags(NoAmenities)>>))}

StoreInit ==
    /\ swipeHistory = EmptyHistory
    /\ quizAnswers = NoQuiz
    /\ lastCall = NoCall
    /\ PatOff
    /\ FeedOff
    /\ storedHistory \in StoredChoices
    /\ storeOp = NoInput
    /\ nextCall = NoCall
    /\ RawOff
    /\ TagsOff
    /\ EnrichOff
    /\ MonOff

\* recordSwipe(tags, direction, price, priceType, commuteMinutes)
StoreRecordSwipe ==
    /\ storeOp = NoInput
    /\ getTotalSwipes(getSwipeHistory(storedHistory)) < MaxHistory
    /\ \E e \in StoreEntryChoices, direction \in {"left", "right"} :
           storedHistory' = recordSwipeOnDisk(storedHistory, e.tags, direction, e.price,
                                              e.priceType, e.commuteMinutes)
    /\ UNCHANGED <<storeOp, storeVars, scoreVars, patVars, feedVars, callVars, rawVars, enrichVars, monVars, tagVars>>

\* getSwipeHistory() and the derived-signal readers, each of which starts by reading it
StoreRead ==
    /\ storeOp = NoInput
    /\ storeOp' = [history |-> getSwipeHistory(storedHistory),
                   signals |-> DerivedSignals(getSwipeHistory(storedHistory))]
    /\ UNCHANGED <<storedHistory, storeVars, scoreVars, patVars, feedVars, callVars, rawVars, enrichVars, monVars, tagVars>>

StoreNext == StoreRecordSwipe \/ StoreRead

SpecStore == StoreInit /\ [][StoreNext]_vars

\* the entries a stored partition holds, in the current format
StoredEntries(part) == IF part.present THEN MapSeq(part.items, normalizeEntry) ELSE <<>>

StoredLiked(stored) == IF stored.kind = "object" THEN StoredEntries(stored.liked) ELSE <<>>
StoredDisliked(stored) == IF stored.kind = "object" THEN StoredEntries(stored.disliked) ELSE <<>>

IsPrefix(s, t) == Len(s) <= Len(t) /\ SubSeq(t, 1, Len(s)) = s

\* C11: recordSwipe keeps every entry that was stored, in both partitions and
\* in order, whatever the stored format, and the total swipe count grows by
\* exactly 1 (so it never decreases)
C11_HistoryAppendOnly ==
    [][storedHistory' # storedHistory =>
          /\ IsPrefix(StoredLiked(storedHistory), getSwipeHistory(storedHistory').liked)
          /\ IsPrefix(StoredDisliked(storedHistory), getSwipeHistory(storedHistory').disliked)
          /\ getTotalSwipes(getSwipeHistory(storedHistory'))
                 = Len(StoredLiked(storedHistory)) + Len(StoredDisliked(storedHistory)) + 1
          /\ getTotalSwipes(getSwipeHistory(storedHistory'))
                 = getTotalSwipes(getSwipeHistory(storedHistory)) + 1]_vars

\* the prices / commutes of a partition that qualify as samples
QualifyingPrices(entries, pt) ==
    LET Qual(e) == e.price > 0 /\ (pt = "any" \/ e.priceType = pt)
        Price(e) == e.price
    IN MapSeq(SelectSeq(entries, Qual), Price)

QualifyingCommutes(entries) ==
    LET Qual(e) == e.commuteMinutes > 0
        Minutes(e) == e.commuteMinutes
    IN MapSeq(SelectSeq(entries, Qual), Minutes)

\* r is null below 2 samples, and else the least sample, the greatest sample
\* and the mean rounded to the nearest integer (halves up)
IsRangeOf(r, values) ==
    LET n == Len(values)
    IN IF n < 2 THEN r = NoRange
       ELSE /\ r # NoRange
            /\ \E i \in 1..n : values[i] = r.min
            /\ \E i \in 1..n : values[i] = r.max
            /\ \A i \in 1..n : r.min <= values[i] /\ values[i] <= r.max
            /\ 2 * n * r.avg - n <= 2 * SumSeq(values)
            /\ 2 * SumSeq(values) < 2 * n * r.avg + n

\* C12: the price and commute ranges are null below 2 qualifying samples and
\* else hold the exact minimum, maximum and rounded mean of the qualifying
\* samples, for the liked and the disliked partition
C12_RangesExact ==
    storeOp # NoInput =>
        /\ \A pt \in PriceTypeArgs :
              /\ IsRangeOf(storeOp.signals.likedPriceRange[pt], QualifyingPrices(storeOp.history.liked, pt))
              /\ IsRangeOf(storeOp.signals.dislikedPriceRange[pt], QualifyingPrices(storeOp.history.disliked, pt))
        /\ IsRangeOf(storeOp.signals.likedCommuteRange, QualifyingCommutes(storeOp.history.liked))
        /\ IsRangeOf(storeOp.signals.dislikedCommuteRange, QualifyingCommutes(storeOp.history.disliked))

\* three likes read back: the rent range leaves the sale price out, the sale
\* range has one sample only (null), the range over both rounds its mean up
C12_Witness ==
    /\ storeOp # NoInput
    /\ Len(storeOp.history.liked) = 3
    /\ storeOp.signals.likedPriceRange["buy"] = NoRange
    /\ storeOp.signals.likedPriceRange["rent"] = [avg |-> 3000, min |-> 2000, max |-> 4000]
    /\ storeOp.signals.likedPriceRange["any"] = [avg |-> 2767, min |-> 2000, max |-> 4000]
    /\ storeOp.signals.likedCommuteRange = [avg |-> 35, min |-> 20, max |-> 50]
    /\ storeOp.signals.dislikedCommuteRange = NoRange

\* C13: a partition with fewer than 2 entries gives no feature affinity and
\* no subway affinity
C13_NoAffinityBelowTwoEntries ==
    storeOp # NoInput =>
        /\ Len(storeOp.history.liked) < 2 =>
              storeOp.signals.likedFeatures = {} /\ storeOp.signals.likedSubwayLines = {}
        /\ Len(storeOp.history.disliked) < 2 =>
              storeOp.signals.dislikedFeatures = {} /\ storeOp.signals.dislikedSubwayLines = {}

\* a legacy history: both partitions are present and hold plain tag objects
IsLegacy(stored) ==
    /\ stored.kind = "object"
    /\ stored.liked.present /\ stored.disliked.present
    /\ Len(stored.liked.items) + Len(stored.disliked.items) > 0
    /\ \A i \in 1..Len(stored.liked.items) : stored.liked.items[i].fmt = "tags"
    /\ \A i \in 1..Len(stored.disliked.items) : stored.disliked.items[i].fmt = "tags"

DefaultEntry(x) == [tags |-> x.value, price |-> 0, priceType |-> "rent", commuteMinutes |-> 0]

\* C14: reading a legacy history gives, per partition, one entry per stored tag
\* object, in order, with price 0, priceType rent and commuteMinutes 0; reading
\* what was read again (once written back) gives the same history
C14_LegacyNormalisedOnce ==
    storeOp # NoInput =>
        /\ IsLegacy(storedHistory) =>
              /\ storeOp.history.liked = MapSeq(storedHistory.liked.items, DefaultEntry)
              /\ storeOp.history.disliked = MapSeq(storedHistory.disliked.items, DefaultEntry)
        /\ getSwipeHistory(ToDisk(storeOp.history)) = storeOp.history

\* a legacy history with an empty liked partition, read back
C14_Witness ==
    /\ storeOp # NoInput
    /\ IsLegacy(storedHistory)
    /\ storedHistory.liked.items = <<>>
    /\ Len(storeOp.history.disliked) = 2
    /\ storeOp.history.disliked[2] = MkEntry(ElevatorOnly, 0, "rent", 0)

----------------------------------------------------------------------------
(* The swipe feed (SwipeFeed.tsx) as a state machine.  A handler, a promise   *)
(* callback and the effects of one commit are each one step.  setCurrentIndex *)
(* is rendered with the event that calls it; a setListings updater waits in   *)
(* updateQueue until Render applies it, and listingsRef follows the listings  *)
(* only when the effects of that commit run.  The useListings hook that       *)
(* SwipeFeed.tsx calls (setListings, cacheKey) is not in the repository       *)
(* snapshot: LoadFeed follows its description in the specification.           *)

MaxUserEvents == 2
MaxTopups == 4

FeedLimit == 10
TopupTarget == 10
OffsetStep == 25

AnyBeds == [priceType |-> "rent", bedrooms |-> 0]
TwoBeds == [priceType |-> "rent", bedrooms |-> 2]
FilterSets == {AnyBeds, TwoBeds}

\* what the tag extraction and the commute service answer for each listing
TagsOf(id) ==
    CASE id = 1 -> AllAmenities
      [] id = 2 -> NoAmenities
      [] id = 3 -> ElevatorOnly
      [] id = 4 -> AllAmenities
      [] OTHER -> NeutralTags

CommuteOf(id) ==
    CASE id = 1 -> <<20>>
      [] id = 2 -> <<50>>
      [] id = 3 -> <<>>
      [] id = 4 -> <<30>>
      [] OTHER -> <<30, 60>>

\* what the listing source can return per borough for the first page of a filter
\* set: some listings, or for the narrower filter set also none
FeedSources(fk) ==
    IF fk = AnyBeds THEN {BatchesOf(<<<<2, 1>>, <<3>>>>)}
    ELSE {BatchesOf(<<<<1>>, <<5>>>>), BatchesOf(<<<<>>, <<>>>>)}

\* ... and for a top-up page: some inventory, or nothing (every borough request failed)
TopupSources(fk) ==
    IF fk = AnyBeds THEN {BatchesOf(<<<<3, 4>>, <<5, 4>>>>), BatchesOf(<<<<>>, <<>>>>)}
    ELSE {BatchesOf(<<<<5>>, <<1>>>>), BatchesOf(<<<<>>, <<>>>>)}

FeedQuizChoices == {MkQuiz("short", "save", "amenities")}

Drop(s, n) == SubSeq(s, Min(n, Len(s)) + 1, Len(s))

getAverageCommuteMinutes(listing) ==
    IF Len(listing.commuteTimes) = 0 THEN 0
    ELSE RoundDiv(SumSeq(listing.commuteTimes), Len(listing.commuteTimes))

\* recordSwipe with its storage write: localStorage.setItem is not guarded, so a
\* write that throws leaves the stored history as it was and the exception
\* leaves recordSwipe
recordSwipeCall(history, tagsArg, direction, priceArg, priceTypeArg, commuteMinutes, storageOk) ==
    IF storageOk
    THEN [threw |-> FALSE,
          history |-> recordSwipe(history, tagsArg, direction, priceArg, priceTypeArg, commuteMinutes)]
    ELSE [threw |-> TRUE, history |-> history]

fetchRawListings(priceTypeArg, rentalBatches, saleBatches, limit) ==
    LET Rent(item) == transformToListing(item, "rent")
        Buy(item) == transformToListing(item, "buy")
    IN (IF priceTypeArg \in {"rent", "both"}
        THEN MapSeq(fetchAcrossCities(rentalBatches, limit), Rent) ELSE <<>>)
       \o (IF priceTypeArg \in {"buy", "both"}
           THEN MapSeq(fetchAcrossCities(saleBatches, limit), Buy) ELSE <<>>)

\* enrichListing with the answers of the tables; failing holds the ids whose
\* enrichment fails
EnrichAll(history, quiz, ls, failing) ==
    LET Enrich(l) == enrichListing(history, quiz, l,
                                   IF l.id \in failing THEN FailedOutcome
                                   ELSE OkOutcome(TagsOf(l.id), CommuteOf(l.id)))
    IN MapSeq(ls, Enrich)

\* the hook's pipeline for a filter set without a session snapshot: the raw
\* listings, each replaced in place by its enriched version, in the raw order
LoadFeed(history, quiz, fk, batches, failing) ==
    EnrichAll(history, quiz, fetchRawListings(fk.priceType, batches, <<>>, FeedLimit), failing)

applyRescoreUnsorted(prev, fromIndex, updatedScores) ==
    LET Rescored(l) == IF l.id \in DOMAIN updatedScores
                       THEN [l EXCEPT !.matchScore = updatedScores[l.id]] ELSE l
    IN Take(prev, fromIndex) \o MapSeq(Drop(prev, fromIndex), Rescored)

\* the updater of rescoreRemaining
applyRescore(prev, fromIndex, updatedScores) ==
    LET Rescored(l) == IF l.id \in DOMAIN updatedScores
                       THEN [l EXCEPT !.matchScore = updatedScores[l.id]] ELSE l
    IN Take(prev, fromIndex) \o SortByScoreDesc(MapSeq(Drop(prev, fromIndex), Rescored))

\* the updater of fetchPatternMatches
applyMerge(prev, fromIndex, matches) ==
    LET unseen == Drop(prev, fromIndex)
        IsNew(m) == m.id \notin IdsOf(unseen)
    IN Take(prev, fromIndex) \o SortByScoreDesc(unseen \o FilterSeq(matches, IsNew))

\* the number the merge updater stores in addedCount
addedCountOf(prev, fromIndex, matches) ==
    LET IsNew(m) == m.id \notin IdsOf(Drop(prev, fromIndex))
    IN Len(FilterSeq(matches, IsNew))

ApplyUpdate(prev, u) ==
    IF u.kind = "rescore" THEN applyRescore(prev, u.fromIndex, u.scores)
    ELSE applyMerge(prev, u.fromIndex, u.matches)

RECURSIVE ApplyQueue(_, _)
ApplyQueue(prev, queue) ==
    IF queue = <<>> THEN prev ELSE ApplyQueue(ApplyUpdate(prev, Head(queue)), Tail(queue))

\* updatedScores of rescoreRemaining: a score for every unseen listing of
\* listingsRef whose tags are cached
UpdatedScores(ref, fromIndex, history, quiz, cache) ==
    LET unseen == Drop(ref, fromIndex)
        LastOf(id) == unseen[CHOOSE i \in 1..Len(unseen) :
                                 /\ unseen[i].id = id
                                 /\ \A j \in 1..Len(unseen) : unseen[j].id = id => j <= i]
    IN [id \in IdsOf(unseen) \cap cache |->
           computeMatchScore(history, quiz, TagsOf(id), LastOf(id).price, LastOf(id).priceType,
                             LastOf(id).commuteTimes)]

\* rescoreRemaining(fromIndex), as the update queue it leaves.  It has no await,
\* so no other call can run between ++rescoreRunRef.current and the comparison
\* of runId with it: the comparison never fails and the updater is always queued
\* unless nothing is unseen
rescoreRemaining(queue, ref, fromIndex, history, quiz, cache) ==
    IF Drop(ref, fromIndex) = <<>> THEN queue
    ELSE Append(queue, [kind |-> "rescore", fromIndex |-> fromIndex,
                        scores |-> UpdatedScores(ref, fromIndex, history, quiz, cache),
                        matches |-> <<>>])

\* what fetchPatternMatchedListings resolves to for the call t
TopupMatches(history, quiz, t, batches, failing) ==
    PatternSelect(EnrichAll(history, quiz,
                            PatternSeed(history, t.fk.priceType, batches, <<>>, t.existingIds, TopupTarget),
                            failing),
                  TopupTarget)

NoMeta == [none |-> TRUE]
MkMeta(idx, batch) == [currentIndex |-> idx, patternBatchCount |-> batch]

\* persistSessionMeta(idx) of the render whose filter set is fk
persistSessionMeta(meta, fk, idx, batch) == [meta EXCEPT ![fk] = MkMeta(idx, batch)]

NoCommit == [index |-> FALSE, listings |-> FALSE, length |-> FALSE, filter |-> FALSE]

NoRender == [none |-> TRUE]

\* one like and one dislike: the next swipe is the third
TwoSwipes ==
    [liked |-> <<MkEntry(AllAmenities, 2000, "rent", 20)>>,
     disliked |-> <<MkEntry(NoAmenities, 4000, "rent", 50)>>]

\* the feed as mounted over a stored history, the first page loaded; events is
\* the number of user actions the session is followed for
FeedInitWith(history, batches, failing, events) ==
    /\ swipeHistory = history
    /\ quizAnswers = NoQuiz
    /\ lastCall = NoCall
    /\ PatOff
    /\ AuxOff
    /\ filterKey = AnyBeds
    /\ listings = LoadFeed(history, NoQuiz, AnyBeds, batches, failing)
    /\ listingsRef = listings
    /\ updateQueue = <<>>
    /\ currentIndex = 0
    /\ rescoreRunRef = 0
    /\ patternFetchInFlightRef = FALSE
    /\ patternBatchCountRef = 0
    /\ autoTopupAttemptsRef = 0
    /\ hasPromptedQuizRef = FALSE
    /\ showPreferenceQuiz = FALSE
    /\ isFindingPatternMatches = FALSE
    /\ savedListings = <<>>
    /\ sessionMeta = [fk \in FilterSets |-> IF fk = AnyBeds THEN MkMeta(0, 0) ELSE NoMeta]
    /\ tagsCache = IdsOf(listings) \ failing
    /\ pendingSwipes = {}
    /\ topups = {}
    /\ sessionCache = [fk \in FilterSets |-> <<>>]
    /\ commit = NoCommit
    /\ lastRender = NoRender
    /\ swipeLog = [right |-> 0, left |-> 0, threw |-> FALSE, events |-> events,
                   baseLiked |-> Len(history.liked), baseDisliked |-> Len(history.disliked)]
    /\ topupCount = 0
    /\ filterChanges = 0
    /\ emptyTopups = 0

FeedInit ==
    \E history \in {EmptyHistory, TwoSwipes, WarmHistory}, batches \in FeedSources(AnyBeds), failing \in {{}, {2}} :
        FeedInitWith(history, batches, failing, MaxUserEvents)

\* the user's actions so far: swipes, filter changes, and the quiz answered or skipped
UserEvents ==
    swipeLog.right + swipeLog.left + filterChanges + (IF hasPromptedQuizRef THEN 1 ELSE 0)

fetchVars == <<patternFetchInFlightRef, topups, sessionMeta, isFindingPatternMatches, topupCount>>

\* fetchPatternMatches(fromIndex) of the render whose filter set is fk, up to its
\* await: a call while the flag is set returns at once; otherwise the flag is
\* set, the session metadata written and the request sent with the ids of
\* listingsRef as the exclusions
FetchPatternMatchesStart(fromIndex, fk, inFlightNow, batchNow, refNow, metaNow, findingNow) ==
    IF inFlightNow
    THEN /\ patternFetchInFlightRef' = inFlightNow
         /\ topups' = topups
         /\ sessionMeta' = metaNow
         /\ isFindingPatternMatches' = findingNow
         /\ topupCount' = topupCount
    ELSE /\ topupCount < MaxTopups
         /\ patternFetchInFlightRef' = TRUE
         /\ topups' = topups \cup {[n |-> topupCount + 1, fromIndex |-> fromIndex, fk |-> fk,
                                    existingIds |-> IdsOf(refNow), offset |-> batchNow * OffsetStep]}
         /\ sessionMeta' = persistSessionMeta(metaNow, fk, fromIndex, batchNow)
         /\ isFindingPatternMatches' = TRUE
         /\ topupCount' = topupCount + 1

\* setListings called with the queue it leaves.  Called while a user event is
\* handled (inEvent), the updaters are rendered with that event, after those
\* still queued; called from a promise callback they wait for the next Render
QueueOrRender(queueNow, inEvent, indexChanged) ==
    IF inEvent /\ queueNow # updateQueue
    THEN /\ listings' = ApplyQueue(listings, queueNow)
         /\ updateQueue' = <<>>
         /\ lastRender' = [before |-> listings, queue |-> queueNow]
         /\ commit' = [index |-> indexChanged, listings |-> TRUE,
                       length |-> (Len(listings') # Len(listings)), filter |-> FALSE]
    ELSE /\ listings' = listings
         /\ updateQueue' = queueNow
         /\ lastRender' = lastRender
         /\ commit' = [commit EXCEPT !.index = @ \/ indexChanged]

\* the callback handleSwipe attaches to extractListingTags(listing), run with the
\* tags in the cache; p is the swipe, log the bookkeeping to extend
SwipeThenEarlyRescore(p, storageOk, log, inEvent) ==
    LET rec == recordSwipeCall(swipeHistory, TagsOf(p.listing.id), p.direction, p.listing.price,
                               p.listing.priceType, getAverageCommuteMinutes(p.listing), storageOk)
        totalSwipes == getTotalSwipes(rec.history)
    IN /\ swipeHistory' = rec.history
       /\ swipeLog' = [log EXCEPT !.threw = @ \/ rec.threw]
       /\ IF rec.threw
          THEN /\ UNCHANGED <<showPreferenceQuiz, rescoreRunRef, fetchVars>>
               /\ QueueOrRender(updateQueue, inEvent, inEvent)
          ELSE /\ showPreferenceQuiz' =
                      (showPreferenceQuiz
                       \/ (totalSwipes >= 4 /\ ~hasPromptedQuizRef /\ quizAnswers = NoQuiz))
               /\ IF totalSwipes >= 2
                  THEN /\ rescoreRunRef' = rescoreRunRef + 1
                       /\ QueueOrRender(rescoreRemaining(updateQueue, listingsRef, p.nextIndex,
                                                         rec.history, quizAnswers, tagsCache'),
                                        inEvent, inEvent)
                  ELSE /\ rescoreRunRef' = rescoreRunRef
                       /\ QueueOrRender(updateQueue, inEvent, inEvent)
               /\ IF totalSwipes >= 4
                  THEN FetchPatternMatchesStart(p.nextIndex, p.fk, patternFetchInFlightRef,
                                                patternBatchCountRef, listingsRef, sessionMeta,
                                                isFindingPatternMatches)
                  ELSE UNCHANGED fetchVars

SwipeThen(p, storageOk, log, inEvent) ==
    LET rec == recordSwipeCall(swipeHistory, TagsOf(p.listing.id), p.direction, p.listing.price,
                               p.listing.priceType, getAverageCommuteMinutes(p.listing), storageOk)
        totalSwipes == getTotalSwipes(rec.history)
    IN /\ swipeHistory' = rec.history
       /\ swipeLog' = [log EXCEPT !.threw = @ \/ rec.threw]
       /\ IF rec.threw
          THEN /\ UNCHANGED <<showPreferenceQuiz, rescoreRunRef, fetchVars>>
               /\ QueueOrRender(updateQueue, inEvent, inEvent)
          ELSE /\ showPreferenceQuiz' =
                      (showPreferenceQuiz
                       \/ (totalSwipes >= 4 /\ ~hasPromptedQuizRef /\ quizAnswers = NoQuiz))
               /\ IF totalSwipes >= 3
                  THEN /\ rescoreRunRef' = rescoreRunRef + 1
                       /\ QueueOrRender(rescoreRemaining(updateQueue, listingsRef, p.nextIndex,
                                                         rec.history, quizAnswers, tagsCache'),
                                        inEvent, inEvent)
                  ELSE /\ rescoreRunRef' = rescoreRunRef
                       /\ QueueOrRender(updateQueue, inEvent, inEvent)
               /\ IF totalSwipes >= 4
                  THEN FetchPatternMatchesStart(p.nextIndex, p.fk, patternFetchInFlightRef,
                                                patternBatchCountRef, listingsRef, sessionMeta,
                                                isFindingPatternMatches)
                  ELSE UNCHANGED fetchVars

\* handleSwipe on the card on top.  With the tags of the listing cached the
\* promise of extractListingTags is already resolved and its callback runs
\* within the event; otherwise the extraction is pending
HandleSwipe ==
    /\ commit = NoCommit
    /\ currentIndex < Len(listings)
    /\ UserEvents < swipeLog.events
    /\ \E direction \in {"left", "right"} :
         LET listing == listings[currentIndex + 1]
             p == [n |-> swipeLog.right + swipeLog.left + 1, listing |-> listing,
                   direction |-> direction, nextIndex |-> currentIndex + 1, fk |-> filterKey]
             log == IF direction = "right" THEN [swipeLog EXCEPT !.right = @ + 1]
                    ELSE [swipeLog EXCEPT !.left = @ + 1]
         IN /\ savedListings' = IF direction = "right" THEN Append(savedListings, listing.id)
                                ELSE savedListings
            /\ currentIndex' = currentIndex + 1
            /\ tagsCache' = tagsCache
            /\ IF listing.id \in tagsCache
               THEN /\ \E storageOk \in BOOLEAN : SwipeThen(p, storageOk, log, TRUE)
                    /\ pendingSwipes' = pendingSwipes
               ELSE /\ pendingSwipes' = pendingSwipes \cup {p}
                    /\ swipeLog' = log
                    /\ QueueOrRender(updateQueue, TRUE, TRUE)
                    /\ UNCHANGED <<swipeHistory, showPreferenceQuiz, rescoreRunRef, fetchVars>>
    /\ UNCHANGED <<quizAnswers, scoreVars, patVars, auxVars, filterKey, listingsRef,
                   patternBatchCountRef, autoTopupAttemptsRef, hasPromptedQuizRef, sessionCache,
                   filterChanges, emptyTopups>>

\* a pending extractListingTags settles: with the tags (cached, then the
\* callback runs), or rejected, and .catch(() => {}) drops the swipe
SwipeTagsResolve ==
    /\ commit = NoCommit
    /\ \E p \in pendingSwipes :
         /\ pendingSwipes' = pendingSwipes \ {p}
         /\ \/ /\ tagsCache' = tagsCache \cup {p.listing.id}
               /\ \E storageOk \in BOOLEAN : SwipeThen(p, storageOk, swipeLog, FALSE)
            \/ UNCHANGED <<tagsCache, swipeHistory, swipeLog, showPreferenceQuiz, rescoreRunRef,
                           listings, updateQueue, lastRender, commit, fetchVars>>
    /\ UNCHANGED <<quizAnswers, scoreVars, patVars, auxVars, filterKey, listingsRef, currentIndex,
                   patternBatchCountRef, autoTopupAttemptsRef, hasPromptedQuizRef, savedListings,
                   sessionCache, filterChanges, emptyTopups>>

\* the render that applies the setListings updaters queued by promise callbacks
Render ==
    /\ commit = NoCommit
    /\ updateQueue # <<>>
    /\ listings' = ApplyQueue(listings, updateQueue)
    /\ updateQueue' = <<>>
    /\ lastRender' = [before |-> listings, queue |-> updateQueue]
    /\ commit' = [NoCommit EXCEPT !.listings = TRUE, !.length = (Len(listings') # Len(listings))]
    /\ UNCHANGED <<storeVars, scoreVars, patVars, auxVars, filterKey, listingsRef, currentIndex, rescoreRunRef,
                   patternBatchCountRef, autoTopupAttemptsRef, hasPromptedQuizRef,
                   showPreferenceQuiz, savedListings, tagsCache, pendingSwipes, sessionCache,
                   swipeLog, filterChanges, emptyTopups, fetchVars>>

ExhaustionTopupDueUnbounded ==
    /\ currentIndex >= Len(listings)
    /\ getTotalSwipes(swipeHistory) >= 4
    /\ ~patternFetchInFlightRef

\* the body of the exhaustion effect: nothing is left to show, four swipes are
\* recorded, no top-up is in flight and fewer than three attempts are counted
ExhaustionTopupDue ==
    /\ currentIndex >= Len(listings)
    /\ getTotalSwipes(swipeHistory) >= 4
    /\ ~patternFetchInFlightRef
    /\ autoTopupAttemptsRef < 3

\* the effects of a commit that kept the filter set, in the order of the source:
\* listingsRef follows the listings, the session metadata is written, the cursor
\* is clamped, and an exhausted feed asks for a top-up
RunEffects ==
    /\ commit # NoCommit
    /\ ~commit.filter
    /\ LET refNow == IF commit.listings THEN listings ELSE listingsRef
           metaNow == IF commit.index
                      THEN persistSessionMeta(sessionMeta, filterKey, currentIndex, patternBatchCountRef)
                      ELSE sessionMeta
           clamped == /\ commit.index \/ commit.length
                      /\ Len(listings) # 0
                      /\ currentIndex > Len(listings)
           exhausted == (commit.index \/ commit.length) /\ ExhaustionTopupDue
       IN /\ listingsRef' = refNow
          /\ currentIndex' = IF clamped THEN Len(listings) ELSE currentIndex
          /\ commit' = IF clamped THEN [NoCommit EXCEPT !.index = TRUE] ELSE NoCommit
          /\ IF exhausted
             THEN FetchPatternMatchesStart(currentIndex, filterKey, patternFetchInFlightRef,
                                           patternBatchCountRef, refNow, metaNow,
                                           isFindingPatternMatches)
             ELSE /\ sessionMeta' = metaNow
                  /\ UNCHANGED <<patternFetchInFlightRef, topups, isFindingPatternMatches, topupCount>>
    /\ lastRender' = NoRender
    /\ UNCHANGED <<storeVars, scoreVars, patVars, auxVars, filterKey, listings, updateQueue, rescoreRunRef,
                   patternBatchCountRef, autoTopupAttemptsRef, hasPromptedQuizRef,
                   showPreferenceQuiz, savedListings, tagsCache, pendingSwipes, sessionCache,
                   swipeLog, filterChanges, emptyTopups>>

\* the request of the top-up t answers: the merge updater is queued, the
\* counters move, and the finally block clears the flag.  addedCount is read
\* right after setListings: the updater has run by then only if React ran it
\* eagerly, which it does when no update is queued
TopupComplete ==
    /\ commit = NoCommit
    /\ \E t \in topups : \E batches \in TopupSources(t.fk) :
         LET failing == {}
             matches == TopupMatches(swipeHistory, quizAnswers, t, batches, failing)
             addedCount == IF updateQueue = <<>>
                           THEN addedCountOf(listings, t.fromIndex, matches) ELSE 0
         IN /\ updateQueue' = Append(updateQueue, [kind |-> "merge", fromIndex |-> t.fromIndex,
                                                   scores |-> <<>>, matches |-> matches])
            /\ autoTopupAttemptsRef' = IF addedCount > 0 THEN 0 ELSE autoTopupAttemptsRef + 1
            /\ emptyTopups' = IF addedCountOf(ApplyQueue(listings, updateQueue), t.fromIndex, matches) > 0
                              THEN 0 ELSE emptyTopups + 1
            /\ patternBatchCountRef' = patternBatchCountRef + 1
            /\ sessionMeta' = persistSessionMeta(sessionMeta, t.fk, t.fromIndex, patternBatchCountRef')
            /\ patternFetchInFlightRef' = FALSE
            /\ isFindingPatternMatches' = FALSE
            /\ topups' = topups \ {t}
            /\ tagsCache' = tagsCache \cup
                   (IdsOf(PatternSeed(swipeHistory, t.fk.priceType, batches, <<>>, t.existingIds,
                                      TopupTarget)) \ failing)
    /\ UNCHANGED <<storeVars, scoreVars, patVars, auxVars, filterKey, listings, listingsRef, currentIndex,
                   rescoreRunRef, hasPromptedQuizRef, showPreferenceQuiz, savedListings,
                   pendingSwipes, sessionCache, commit, lastRender, swipeLog, topupCount,
                   filterChanges>>

TopupFailedKeepsFlag ==
    /\ commit = NoCommit
    /\ \E t \in topups :
         /\ autoTopupAttemptsRef' = autoTopupAttemptsRef + 1
         /\ emptyTopups' = emptyTopups + 1
         /\ sessionMeta' = persistSessionMeta(sessionMeta, t.fk, t.fromIndex, patternBatchCountRef)
         /\ patternFetchInFlightRef' = patternFetchInFlightRef
         /\ isFindingPatternMatches' = isFindingPatternMatches
         /\ topups' = topups \ {t}
    /\ UNCHANGED <<storeVars, scoreVars, patVars, auxVars, filterKey, listings, listingsRef, updateQueue,
                   currentIndex, rescoreRunRef, patternBatchCountRef, hasPromptedQuizRef,
                   showPreferenceQuiz, savedListings, tagsCache, pendingSwipes, sessionCache, commit,
                   lastRender, swipeLog, topupCount, filterChanges>>

\* the request of the top-up t rejects (an answer that is not a list of
\* records): the catch block counts the attempt and writes the session
\* metadata, the finally block clears the flag; nothing is merged
TopupFailed ==
    /\ commit = NoCommit
    /\ \E t \in topups :
         /\ autoTopupAttemptsRef' = autoTopupAttemptsRef + 1
         /\ emptyTopups' = emptyTopups + 1
         /\ sessionMeta' = persistSessionMeta(sessionMeta, t.fk, t.fromIndex, patternBatchCountRef)
         /\ patternFetchInFlightRef' = FALSE
         /\ isFindingPatternMatches' = FALSE
         /\ topups' = topups \ {t}
    /\ UNCHANGED <<storeVars, scoreVars, patVars, auxVars, filterKey, listings, listingsRef, updateQueue,
                   currentIndex, rescoreRunRef, patternBatchCountRef, hasPromptedQuizRef,
                   showPreferenceQuiz, savedListings, tagsCache, pendingSwipes, sessionCache, commit,
                   lastRender, swipeLog, topupCount, filterChanges>>

\* applyPreferenceQuiz with a complete draft
ApplyPreferenceQuiz ==
    /\ commit = NoCommit
    /\ showPreferenceQuiz
    /\ UserEvents < swipeLog.events
    /\ \E answers \in FeedQuizChoices :
         /\ quizAnswers' = answers
         /\ QueueOrRender(rescoreRemaining(updateQueue, listingsRef, currentIndex, swipeHistory,
                                           answers, tagsCache),
                          TRUE, FALSE)
    /\ showPreferenceQuiz' = FALSE
    /\ hasPromptedQuizRef' = TRUE
    /\ rescoreRunRef' = rescoreRunRef + 1
    /\ FetchPatternMatchesStart(currentIndex, filterKey, patternFetchInFlightRef,
                                patternBatchCountRef, listingsRef, sessionMeta,
                                isFindingPatternMatches)
    /\ UNCHANGED <<swipeHistory, scoreVars, patVars, auxVars, filterKey, listingsRef, currentIndex,
                   patternBatchCountRef, autoTopupAttemptsRef, savedListings, tagsCache,
                   pendingSwipes, sessionCache, swipeLog, filterChanges, emptyTopups>>

\* skipPreferenceQuiz, and the quiz closed because no quiz copy could be generated
SkipPreferenceQuiz ==
    /\ commit = NoCommit
    /\ showPreferenceQuiz
    /\ UserEvents < swipeLog.events
    /\ showPreferenceQuiz' = FALSE
    /\ hasPromptedQuizRef' = TRUE
    /\ UNCHANGED <<storeVars, scoreVars, patVars, auxVars, filterKey, listings, listingsRef, updateQueue,
                   currentIndex, rescoreRunRef, patternBatchCountRef, autoTopupAttemptsRef,
                   savedListings, tagsCache, pendingSwipes, sessionCache, commit, lastRender,
                   swipeLog, filterChanges, emptyTopups, fetchVars>>

\* handleFilterChange(setter): the refs are reset, the cursor returns to 0 and
\* persistSessionMeta(0), still the callback of the old filter set, writes the
\* old key.  The hook has kept the snapshot of the listings it showed
HandleFilterChange ==
    /\ commit = NoCommit
    /\ UserEvents < swipeLog.events
    /\ \E newKey \in FilterSets :
         /\ filterKey' = newKey
         /\ commit' = [NoCommit EXCEPT !.index = (currentIndex # 0), !.filter = (newKey # filterKey)]
    /\ patternFetchInFlightRef' = FALSE
    /\ patternBatchCountRef' = 0
    /\ autoTopupAttemptsRef' = 0
    /\ currentIndex' = 0
    /\ sessionMeta' = persistSessionMeta(sessionMeta, filterKey, 0, 0)
    /\ sessionCache' = [sessionCache EXCEPT ![filterKey] = listings]
    /\ filterChanges' = filterChanges + 1
    /\ emptyTopups' = 0
    /\ UNCHANGED <<storeVars, scoreVars, patVars, auxVars, listings, listingsRef, updateQueue, rescoreRunRef,
                   hasPromptedQuizRef, showPreferenceQuiz, isFindingPatternMatches, savedListings,
                   tagsCache, pendingSwipes, topups, lastRender, swipeLog, topupCount>>

\* the effects of the commit that changed the filter set: the hook restores the
\* snapshot of the new filter set or loads its feed, the cursor and the batch
\* count are restored from the session metadata, the top-up flag and the attempt
\* counter are reset.  The cursor and the listings changed, so the effects that
\* depend on them run next
RunFilterEffects ==
    /\ commit # NoCommit
    /\ commit.filter
    /\ \E batches \in FeedSources(filterKey) :
         listings' = IF sessionCache[filterKey] # <<>> THEN sessionCache[filterKey]
                     ELSE LoadFeed(swipeHistory, quizAnswers, filterKey, batches, {})
    /\ tagsCache' = tagsCache \cup IdsOf(listings')
    /\ updateQueue' = <<>>
    /\ currentIndex' = IF sessionMeta[filterKey] = NoMeta THEN 0
                       ELSE sessionMeta[filterKey].currentIndex
    /\ patternBatchCountRef' = IF sessionMeta[filterKey] = NoMeta THEN 0
                               ELSE sessionMeta[filterKey].patternBatchCount
    /\ autoTopupAttemptsRef' = 0
    /\ emptyTopups' = 0
    /\ isFindingPatternMatches' = FALSE
    /\ patternFetchInFlightRef' = FALSE
    /\ commit' = [index |-> TRUE, listings |-> TRUE, length |-> TRUE, filter |-> FALSE]
    /\ UNCHANGED <<storeVars, scoreVars, patVars, auxVars, filterKey, listingsRef, rescoreRunRef,
                   hasPromptedQuizRef, showPreferenceQuiz, savedListings, sessionMeta,
                   pendingSwipes, topups, sessionCache, lastRender, swipeLog, topupCount,
                   filterChanges>>

Next ==
    \/ HandleSwipe
    \/ SwipeTagsResolve
    \/ Render
    \/ RunEffects
    \/ TopupComplete
    \/ TopupFailed
    \/ ApplyPreferenceQuiz
    \/ SkipPreferenceQuiz
    \/ HandleFilterChange
    \/ RunFilterEffects

Spec == FeedInit /\ [][Next]_vars

OnlyKind(queue, kind) == \A k \in 1..Len(queue) : queue[k].kind = kind

\* every updater of the last render, applied to the list as it was when its
\* turn came, satisfies Frame(before, after, fromIndex)
EveryUpdater(Frame(_, _, _)) ==
    \A k \in 1..Len(lastRender.queue) :
        LET before == ApplyQueue(lastRender.before, SubSeq(lastRender.queue, 1, k - 1))
        IN Frame(before, ApplyUpdate(before, lastRender.queue[k]), lastRender.queue[k].fromIndex)

\* C1: when the matches of a top-up are merged, the listings below the cursor
\* keep their position, identity and score, whatever the user swiped while the
\* top-up was running
C1_MergeKeepsSwipedListings ==
    (lastRender # NoRender /\ OnlyKind(lastRender.queue, "merge"))
        => Take(listings, currentIndex) = Take(lastRender.before, currentIndex)

\* C2: every updater (re-rank or merge) leaves the positions below its fromIndex
\* as they were in the list it is applied to: same listings, order and scores;
\* only positions from fromIndex on change
C2_PositionsBelowFromIndexUnchanged ==
    lastRender # NoRender
        => LET Frame(before, after, fromIndex) == Take(after, fromIndex) = Take(before, fromIndex)
           IN EveryUpdater(Frame)

\* C3: at most one top-up is between setting and clearing the in-flight flag
C3_AtMostOneTopup == Cardinality(topups) <= 1

\* C4: when two re-ranks A then B are rendered, the unseen tail is the one B
\* alone produces: what A computed is discarded
C4_LastRescoreWins ==
    (lastRender # NoRender /\ Len(lastRender.queue) >= 2 /\ OnlyKind(lastRender.queue, "rescore"))
        => LET B == lastRender.queue[Len(lastRender.queue)]
           IN Drop(listings, B.fromIndex) = Drop(ApplyUpdate(lastRender.before, B), B.fromIndex)

\* C5: a top-up started under another filter set than the active one completes
\* without queueing a merge and without touching the batch count, the attempt
\* counter, the in-flight flag or the session metadata of the active filter set
C5_StaleTopupChangesNothing ==
    [][(\E t \in topups : t \notin topups' /\ t.fk # filterKey)
        => /\ UNCHANGED <<updateQueue, patternBatchCountRef, autoTopupAttemptsRef,
                          patternFetchInFlightRef>>
           /\ sessionMeta'[filterKey] = sessionMeta[filterKey]]_vars

\* C8: every listing of the feed has its matchScore in [58,92] while fewer than
\* 3 swipes are recorded, and in [55,98] from then on
C8_FeedScoresInBand ==
    \A i \in 1..Len(listings) :
        IF getTotalSwipes(swipeHistory) < 3
        THEN listings[i].matchScore >= 58 /\ listings[i].matchScore <= 92
        ELSE listings[i].matchScore >= 55 /\ listings[i].matchScore <= 98

\* C9: once no tag lookup is pending, every swipe has left exactly one entry, in
\* the partition of its direction (storage writes that threw set aside)
C9_EverySwipeRecorded ==
    (pendingSwipes = {} /\ ~swipeLog.threw)
        => /\ Len(swipeHistory.liked) = swipeLog.baseLiked + swipeLog.right
           /\ Len(swipeHistory.disliked) = swipeLog.baseDisliked + swipeLog.left

\* C10: no call of recordSwipe ends with an exception
C10_RecordSwipeNeverThrows == ~swipeLog.threw

\* C28: when a swipe has been recorded and the total is then N, a re-rank of
\* the unseen tail is triggered if and only if N >= 3 and a pattern top-up is
\* requested if and only if N >= 4 (the request starts a top-up unless one is
\* in flight); a swipe that leaves N < 3 triggers neither
C28_SwipeTriggersByCount ==
    [][swipeHistory' # swipeHistory =>
          LET N == getTotalSwipes(swipeHistory')
          IN /\ (rescoreRunRef' # rescoreRunRef) <=> N >= 3
             /\ N >= 3 => rescoreRunRef' = rescoreRunRef + 1
             /\ N < 4 => (topupCount' = topupCount /\ topups' = topups
                             /\ patternFetchInFlightRef' = patternFetchInFlightRef)
             /\ N >= 4 => (/\ patternFetchInFlightRef'
                           /\ ~patternFetchInFlightRef => topupCount' = topupCount + 1)]_vars

\* the third swipe re-ranked only, the fourth re-ranked and started a top-up
C28_Witness ==
    /\ swipeLog.baseLiked + swipeLog.baseDisliked = 2
    /\ getTotalSwipes(swipeHistory) = 4
    /\ rescoreRunRef = 2
    /\ topupCount = 1

\* what a re-rank makes of an unseen listing: the score of its cached tags
\* under the history and quiz answers as they are, or the listing as it was
RescoredNow(l) ==
    IF l.id \in tagsCache
    THEN [l EXCEPT !.matchScore = computeMatchScore(swipeHistory, quizAnswers, TagsOf(l.id), l.price,
                                                     l.priceType, l.commuteTimes)]
    ELSE l

\* C31: a re-rank (here the last updater of a render, the list it is applied
\* to being the one the updaters before it left) gives every unseen listing
\* with cached tags the score
\* computeMatchScore returns for those tags, its price, price type and commute
\* times under the current history, leaves an unseen listing without cached
\* tags its score, and changes no other field of any listing
C31_RescoreUsesCachedTagsOnly ==
    (lastRender # NoRender /\ lastRender.queue[Len(lastRender.queue)].kind = "rescore") =>
        LET last == Len(lastRender.queue)
            before == ApplyQueue(lastRender.before, SubSeq(lastRender.queue, 1, last - 1))
            fromIndex == lastRender.queue[last].fromIndex
        IN /\ Take(listings, fromIndex) = Take(before, fromIndex)
           /\ Len(listings) = Len(before)
           /\ {listings[i] : i \in (fromIndex + 1)..Len(listings)}
                 = {RescoredNow(before[i]) : i \in (fromIndex + 1)..Len(before)}

\* C33: the feed never holds two listings with the same id, whatever swipes,
\* re-ranks, top-up merges and filter changes have happened
C33_FeedHasNoRepeatedId == NoRepeatedId(listings)

NonIncreasingFrom(ls, fromIndex) ==
    \A i \in (fromIndex + 1)..(Len(ls) - 1) : ls[i].matchScore >= ls[i + 1].matchScore

\* C34: right after a re-rank or a merge with fromIndex is applied, the list
\* from fromIndex on is in non-increasing matchScore order; a re-rank leaves
\* the length and the ids of the list as they were, and a merge drops no listing
C34_UpdatersSortTailAndKeepListings ==
    lastRender # NoRender =>
        \A k \in 1..Len(lastRender.queue) :
            LET u == lastRender.queue[k]
                before == ApplyQueue(lastRender.before, SubSeq(lastRender.queue, 1, k - 1))
                after == ApplyUpdate(before, u)
            IN /\ NonIncreasingFrom(after, u.fromIndex)
               /\ u.kind = "rescore" => Len(after) = Len(before) /\ IdsOf(after) = IdsOf(before)
               /\ u.kind = "merge" =>
                      /\ Len(after) >= Len(before)
                      /\ \A i \in 1..Len(before) : \E j \in 1..Len(after) : after[j] = before[i]

\* a render that applied a merge whose matches had to be sorted into the tail
\* and then a re-rank that changed scores
C34_Witness ==
    /\ lastRender # NoRender
    /\ Len(lastRender.queue) = 2
    /\ lastRender.queue[1].kind = "merge"
    /\ lastRender.queue[2].kind = "rescore"
    /\ Len(listings) > Len(lastRender.before)
    /\ listings # ApplyUpdate(lastRender.before, lastRender.queue[1])
    /\ ~NonIncreasingFrom(lastRender.before \o lastRender.queue[1].matches,
                          lastRender.queue[1].fromIndex)

\* what goes on without the user once a top-up is started: React runs the
\* effects of a commit, and the fetch of the top-up settles
TopupProgress == RunEffects \/ TopupComplete \/ TopupFailed

\* user events of a session checked under fairness
MaxFairEvents == 3

\* the sessions in which top-ups start: a visitor who has swiped before, whose
\* top-up fetches can succeed or reject
FairInit ==
    \E batches \in FeedSources(AnyBeds), failing \in {{}, {2}} :
        FeedInitWith(WarmHistory, batches, failing, MaxFairEvents)

\* the visitor swipes; React and the fetches do the rest
FairNext ==
    \/ HandleSwipe
    \/ Render
    \/ RunEffects
    \/ TopupComplete
    \/ TopupFailed

SpecFeedFair == FairInit /\ [][FairNext]_vars /\ WF_vars(TopupProgress)

\* C35: every started top-up ends, and the step that ends it (matches merged,
\* no matches, or the fetch rejected) leaves the in-flight flag released
C35_TopupReleasesFlag ==
    /\ [][(topups' # topups /\ topups' \subseteq topups) => ~patternFetchInFlightRef']_vars
    /\ (topups # {}) ~> (topups = {})

\* a top-up whose fetch rejected has ended with the flag released, and a later
\* trigger has started the next one
C35_Witness ==
    /\ topupCount = 2
    /\ patternBatchCountRef = 0
    /\ autoTopupAttemptsRef = 1
    /\ Cardinality(topups) = 1
    /\ patternFetchInFlightRef

\* ---- a session that runs the feed dry: the history already holds four
\* swipes, every listing of the first page was enriched (its tags are cached),
\* the filters are left alone, and the user swipes through the page and
\* answers the quiz
MaxExhaustEvents == 4

ExhaustInit ==
    \E batches \in FeedSources(AnyBeds) :
        FeedInitWith(WarmHistory, batches, {}, MaxExhaustEvents)

ExhaustNext ==
    \/ HandleSwipe
    \/ Render
    \/ RunEffects
    \/ TopupComplete
    \/ TopupFailed
    \/ ApplyPreferenceQuiz

SpecExhaust == ExhaustInit /\ [][ExhaustNext]_vars

\* a top-up started by the exhaustion effect: effects run on a commit, swipes
\* and the quiz are handled when none is pending
AutomaticTopupStarts == commit # NoCommit /\ topupCount' = topupCount + 1

\* C29: once 3 top-ups in a row have failed or added no listing, the
\* exhaustion effect starts no top-up until a top-up adds a listing or the
\* filters change
C29_AutomaticTopupsBounded ==
    [][AutomaticTopupStarts => emptyTopups < 3]_vars

\* a swipe has just run the feed dry after three empty top-ups: the effects of
\* its commit are about to run, with no top-up in flight
C29_Witness ==
    /\ emptyTopups >= 3
    /\ commit # NoCommit
    /\ commit.index
    /\ ~commit.filter
    /\ currentIndex >= Len(listings)
    /\ getTotalSwipes(swipeHistory) >= 4
    /\ ~patternFetchInFlightRef
    /\ topupCount < MaxTopups

----------------------------------------------------------------------------
(* fetchRawListings against a listing source that may fail                    *)
(* (services/rentcast.ts).  A scope is one city (one request per endpoint) or *)
(* the NYC-wide scope, which resolveCityQueries expands to the five boroughs  *)
(* (one request per borough and endpoint).                                    *)

\* what fetchFromAPI does for one city: it resolves with records or it throws
AnswerOk(ids) == [ok |-> TRUE, records |-> ItemsOf(ids)]
AnswerFailed == [ok |-> FALSE, records |-> <<>>]

\* the batch that fetchAcrossCities keeps for a city of a several-city scope
BatchOfAnswer(a) == IF a.ok THEN a.records ELSE <<>>

\* fetchAcrossCities on the answers: with one city the rejection of fetchFromAPI
\* is the rejection of fetchAcrossCities; with several, each failure is caught
fetchAcrossCitiesOn(answers, totalLimit) ==
    IF Len(answers) = 1
    THEN [rejected |-> ~answers[1].ok, value |-> BatchOfAnswer(answers[1])]
    ELSE [rejected |-> FALSE, value |-> fetchAcrossCities(MapSeq(answers, BatchOfAnswer), totalLimit)]

AnswerChoices ==
    {<<AnswerOk(<<1, 1, 2>>)>>,
     <<AnswerFailed>>,
     <<AnswerOk(<<2, 1>>), AnswerOk(<<3, 1>>)>>,
     <<AnswerOk(<<1, 2>>), AnswerOk(<<1, 3>>)>>,
     <<AnswerOk(<<1, 2>>), AnswerFailed, AnswerOk(<<2, 3>>), AnswerOk(<<>>), AnswerOk(<<4>>)>>,
     <<AnswerOk(<<>>), AnswerOk(<<>>), AnswerOk(<<>>), AnswerOk(<<>>), AnswerOk(<<>>)>>,
     <<AnswerFailed, AnswerFailed, AnswerFailed, AnswerFailed, AnswerFailed>>}

RawLimits == {1, 3, FeedLimit}

RawInit ==
    /\ swipeHistory = EmptyHistory
    /\ quizAnswers = NoQuiz
    /\ lastCall = NoCall
    /\ PatOff
    /\ FeedOff
    /\ DiskOff
    /\ nextCall = NoCall
    /\ TagsOff
    /\ EnrichOff
    /\ MonOff
    /\ \E pt \in {"rent", "buy", "both"}, rental \in AnswerChoices, sale \in AnswerChoices, limit \in RawLimits :
           rawCall = [priceType |-> pt, rental |-> rental, sale |-> sale, limit |-> limit,
                      pc |-> "rentals", requested |-> {}, rejected |-> FALSE, results |-> <<>>]

\* if (priceType === "rent" || priceType === "both") { rentals = await fetchAcrossCities(...) }
RawFetchRentals ==
    /\ rawCall # NoInput
    /\ rawCall.pc = "rentals"
    /\ rawCall.priceType \in {"rent", "both"}
    /\ LET r == fetchAcrossCitiesOn(rawCall.rental, rawCall.limit)
           Rent(item) == transformToListing(item, "rent")
       IN rawCall' = [rawCall EXCEPT !.requested = @ \cup {"rental"},
                                     !.rejected = r.rejected,
                                     !.results = IF r.rejected THEN <<>> ELSE MapSeq(r.value, Rent),
                                     !.pc = IF r.rejected \/ rawCall.priceType = "rent"
                                            THEN "done" ELSE "sales"]
    /\ UNCHANGED <<storeVars, scoreVars, patVars, feedVars, diskVars, callVars, tagVars, enrichVars, monVars>>

\* if (priceType === "buy" || priceType === "both") { sales = await fetchAcrossCities(...) }; return results
RawFetchSales ==
    /\ rawCall # NoInput
    /\ \/ rawCall.pc = "sales"
       \/ rawCall.pc = "rentals" /\ rawCall.priceType = "buy"
    /\ LET r == fetchAcrossCitiesOn(rawCall.sale, rawCall.limit)
           Buy(item) == transformToListing(item, "buy")
       IN rawCall' = [rawCall EXCEPT !.requested = @ \cup {"sale"},
                                     !.rejected = r.rejected,
                                     !.results = IF r.rejected THEN <<>> ELSE @ \o MapSeq(r.value, Buy),
                                     !.pc = "done"]
    /\ UNCHANGED <<storeVars, scoreVars, patVars, feedVars, diskVars, callVars, tagVars, enrichVars, monVars>>

RawNext == RawFetchRentals \/ RawFetchSales

SpecRaw == RawInit /\ [][RawNext]_vars

AllFailed(answers) == \A c \in 1..Len(answers) : ~answers[c].ok

\* C18: when every request that fetchRawListings made to the listing source
\* failed, fetchRawListings rejects, for a one-city scope and for the NYC-wide
\* scope alike
C18_RawFetchFailureRejects ==
    (rawCall # NoInput /\ rawCall.pc = "done"
        /\ ("rental" \in rawCall.requested => AllFailed(rawCall.rental))
        /\ ("sale" \in rawCall.requested => AllFailed(rawCall.sale)))
    => rawCall.rejected

\* const perCityLimit = Math.max(1, Math.ceil(totalLimit / cities.length)): the
\* limit parameter of each sub-area request
perCityLimit(totalLimit, cities) == Max(1, (totalLimit + cities - 1) \div cities)

\* the listing source returned no more records than a request asked for
HonoursLimit(batches, totalLimit) ==
    \A c \in 1..Len(batches) : Len(batches[c]) <= perCityLimit(totalLimit, Len(batches))

\* the turn of the first record with this id when the batches are read
\* round-robin: the first records of all batches, then the second records, ...
FirstTurn(batches, id) ==
    LET turns == {i * (Len(batches) + 1) + c : i \in 1..FeedLimit, c \in 1..Len(batches)}
        Has(t) == \E i \in 1..FeedLimit, c \in 1..Len(batches) :
                     /\ t = i * (Len(batches) + 1) + c
                     /\ i <= Len(batches[c])
                     /\ batches[c][i].id = id
        mine == {t \in turns : Has(t)}
    IN CHOOSE t \in mine : \A u \in mine : t <= u

DistinctIds(batches) == UNION {IdsOf(batches[c]) : c \in 1..Len(batches)}

\* a finished fetch of rentals over a scope of several sub-areas whose
\* requests were answered within their limit (failed ones with nothing)
SeveralAreasFetched ==
    /\ rawCall # NoInput
    /\ rawCall.pc = "done"
    /\ rawCall.priceType = "rent"
    /\ Len(rawCall.rental) > 1
    /\ HonoursLimit(MapSeq(rawCall.rental, BatchOfAnswer), rawCall.limit)

\* C32: over several sub-areas fetchAcrossCities returns no id twice and
\* exactly min(totalLimit, distinct ids of all batches) items, taken
\* round-robin across the batches (earlier turns first, none skipped); a
\* sub-area whose request failed counts as an empty batch and the fetch does
\* not fail
C32_InterleavedDistinctUpToLimit ==
    SeveralAreasFetched =>
        LET batches == MapSeq(rawCall.rental, BatchOfAnswer)
            out == rawCall.results
        IN /\ ~rawCall.rejected
           /\ NoRepeatedId(out)
           /\ IdsOf(out) \subseteq DistinctIds(batches)
           /\ Len(out) = Min(rawCall.limit, Cardinality(DistinctIds(batches)))
           /\ \A k \in 1..(Len(out) - 1) :
                  FirstTurn(batches, out[k].id) < FirstTurn(batches, out[k + 1].id)
           /\ \A id \in DistinctIds(batches) \ IdsOf(out) : \A k \in 1..Len(out) :
                  FirstTurn(batches, out[k].id) < FirstTurn(batches, id)

\* a fetch over two sub-areas whose batches share a listing: the round-robin
\* pass is cut at the limit with the repeat in it, and the third item is
\* taken from what was left
C32_Witness ==
    /\ SeveralAreasFetched
    /\ rawCall.rental = <<AnswerOk(<<1, 2>>), AnswerOk(<<1, 3>>)>>
    /\ rawCall.limit = 3
    /\ Len(rawCall.results) = 3
    /\ rawCall.results[3].id = 3

----------------------------------------------------------------------------
(* callGroq and its callers (services/groq.ts).  extractListingTags looks in  *)
(* the memory cache, then in localStorage, and else asks callGroq (3          *)
(* attempts); generatePreferenceQuizCopy asks callGroq with 2 attempts.  The  *)
(* feature and subway lookups before the request only shape the prompt and    *)
(* catch their own errors.  A cache holds "none", "corrupt" (unparseable) or  *)
(* "tags" (the tags of that listing).                                         *)

DefaultRetries == 3
QuizRetries == 2
MaxTagCalls == 2

TagIds == {1, 2}

\* how the provider answers one request
GroqResponses == {"ok", "rate_limited", "http_error", "network_error"}

\* for (let attempt = 0; attempt < retries; attempt++)
GroqStart(retries) ==
    [retries |-> retries, attempt |-> 0, pc |-> "fetch", requests |-> 0, waits |-> <<>>,
     error |-> "none", content |-> "none"]

\* Math.min(1000 * 2 ** attempt, 8000)
waitMs(attempt) == Min(1000 * 2 ^ attempt, 8000)

\* one pass of the loop body on the answer resp: fetch rejecting and a non-ok
\* status other than 429 leave callGroq at once; 429 waits and continues
callGroqStep(g, resp, content) ==
    IF resp = "network_error"
    THEN [g EXCEPT !.requests = @ + 1, !.pc = "threw", !.error = "network"]
    ELSE IF resp = "rate_limited"
    THEN [g EXCEPT !.requests = @ + 1, !.pc = "delay", !.waits = Append(@, waitMs(g.attempt))]
    ELSE IF resp = "http_error"
    THEN [g EXCEPT !.requests = @ + 1, !.pc = "threw", !.error = "http"]
    ELSE [g EXCEPT !.requests = @ + 1, !.pc = "returned", !.content = content]

\* continue: the next attempt, or "rate limit exceeded after retries"
callGroqContinueOneMore(g) ==
    IF g.attempt + 1 <= g.retries
    THEN [g EXCEPT !.attempt = @ + 1, !.pc = "fetch"]
    ELSE [g EXCEPT !.attempt = @ + 1, !.pc = "threw", !.error = "rate_limit"]

callGroqContinue(g) ==
    IF g.attempt + 1 < g.retries
    THEN [g EXCEPT !.attempt = @ + 1, !.pc = "fetch"]
    ELSE [g EXCEPT !.attempt = @ + 1, !.pc = "threw", !.error = "rate_limit"]

TagsInit ==
    /\ swipeHistory = EmptyHistory
    /\ quizAnswers = NoQuiz
    /\ lastCall = NoCall
    /\ PatOff
    /\ FeedOff
    /\ storedHistory \in {NoStored, CorruptStored, ToDisk(WarmHistory)}
    /\ storeOp = NoInput
    /\ nextCall = NoCall
    /\ RawOff
    /\ EnrichOff
    /\ MonOff
    /\ groq = NoInput
    /\ tagsCall = [caller |-> "none", id |-> 0, pc |-> "done", outcome |-> "none", calls |-> 0,
                   read |-> "none"]
    /\ memTags = [id \in TagIds |-> "none"]
    /\ diskTags \in [TagIds -> {"none", "corrupt", "tags"}]

\* extractListingTags(listing) up to its first await
ExtractStart ==
    /\ tagsCall # NoInput
    /\ tagsCall.pc = "done"
    /\ tagsCall.calls < MaxTagCalls
    /\ \E id \in TagIds :
           IF memTags[id] = "tags"
           THEN /\ tagsCall' = [caller |-> "tags", id |-> id, pc |-> "done", outcome |-> "memory",
                                calls |-> tagsCall.calls + 1, read |-> diskTags[id]]
                /\ groq' = NoInput
                /\ UNCHANGED <<memTags, diskTags>>
           ELSE IF diskTags[id] = "tags"
           THEN /\ tagsCall' = [caller |-> "tags", id |-> id, pc |-> "done", outcome |-> "disk",
                                calls |-> tagsCall.calls + 1, read |-> diskTags[id]]
                /\ memTags' = [memTags EXCEPT ![id] = "tags"]
                /\ groq' = NoInput
                /\ UNCHANGED diskTags
           ELSE /\ tagsCall' = [caller |-> "tags", id |-> id, pc |-> "groq", outcome |-> "pending",
                                calls |-> tagsCall.calls + 1, read |-> diskTags[id]]
                /\ groq' = GroqStart(DefaultRetries)
                /\ UNCHANGED <<memTags, diskTags>>
    /\ UNCHANGED <<storeVars, scoreVars, patVars, feedVars, diskVars, callVars, rawVars, enrichVars, monVars>>

\* generatePreferenceQuizCopy: callGroq(messages, 2, 300)
QuizCopyStart ==
    /\ tagsCall # NoInput
    /\ tagsCall.pc = "done"
    /\ tagsCall.calls < MaxTagCalls
    /\ tagsCall' = [caller |-> "quiz", id |-> 0, pc |-> "groq", outcome |-> "pending",
                    calls |-> tagsCall.calls + 1, read |-> "none"]
    /\ groq' = GroqStart(QuizRetries)
    /\ UNCHANGED <<memTags, diskTags, storeVars, scoreVars, patVars, feedVars, diskVars, callVars, rawVars, enrichVars, monVars>>

\* callGroq: one request and what it does with the answer
GroqRespond ==
    /\ groq # NoInput
    /\ groq.pc = "fetch"
    /\ \E resp \in GroqResponses, content \in {"json", "garbage"} :
           groq' = callGroqStep(groq, resp, content)
    /\ UNCHANGED <<tagsCall, memTags, diskTags, storeVars, scoreVars, patVars, feedVars, diskVars,
                   callVars, rawVars, enrichVars, monVars>>

\* callGroq: await delay(waitMs); continue
GroqDelayDone ==
    /\ groq # NoInput
    /\ groq.pc = "delay"
    /\ groq' = callGroqContinue(groq)
    /\ UNCHANGED <<tagsCall, memTags, diskTags, storeVars, scoreVars, patVars, feedVars, diskVars,
                   callVars, rawVars, enrichVars, monVars>>

\* the caller after callGroq: extractListingTags parses and caches the tags,
\* and rethrows an error of callGroq or of JSON.parse
CallerResume ==
    /\ tagsCall # NoInput
    /\ tagsCall.pc = "groq"
    /\ groq.pc \in {"returned", "threw"}
    /\ LET parsed == groq.pc = "returned" /\ groq.content = "json"
       IN /\ tagsCall' = [tagsCall EXCEPT !.pc = "done",
                                          !.outcome = IF parsed THEN "extracted" ELSE "failed"]
          /\ IF parsed /\ tagsCall.caller = "tags"
             THEN /\ memTags' = [memTags EXCEPT ![tagsCall.id] = "tags"]
                  /\ diskTags' = [diskTags EXCEPT ![tagsCall.id] = "tags"]
             ELSE UNCHANGED <<memTags, diskTags>>
    /\ UNCHANGED <<groq, storeVars, scoreVars, patVars, feedVars, diskVars, callVars, rawVars, enrichVars, monVars>>

\* getCachedListingTags(listingId): what it returns for the two cache values
getCachedListingTagsStale(mem, disk) ==
    IF mem = "tags" THEN "memory"
    ELSE IF disk = "none" THEN "null"
    ELSE "disk"

getCachedListingTags(mem, disk) ==
    IF mem = "tags" THEN "memory"
    ELSE IF disk = "none" THEN "null"
    ELSE IF disk = "tags" THEN "disk"
    ELSE "null"

\* getCachedListingTags(listingId): a value read from localStorage is kept in memory
GetCachedTags ==
    /\ tagsCall # NoInput
    /\ tagsCall.pc = "done"
    /\ tagsCall.calls < MaxTagCalls
    /\ \E id \in TagIds :
           /\ tagsCall' = [caller |-> "cached", id |-> id, pc |-> "done",
                            outcome |-> getCachedListingTags(memTags[id], diskTags[id]),
                            calls |-> tagsCall.calls + 1, read |-> diskTags[id]]
           /\ memTags' = IF tagsCall'.outcome = "disk" THEN [memTags EXCEPT ![id] = "tags"] ELSE memTags
    /\ groq' = NoInput
    /\ UNCHANGED <<diskTags, storeVars, scoreVars, patVars, feedVars, diskVars, callVars, rawVars, enrichVars, monVars>>

TagsNext ==
    \/ ExtractStart
    \/ QuizCopyStart
    \/ GroqRespond
    \/ GroqDelayDone
    \/ CallerResume
    \/ GetCachedTags
    \/ StoreRead

SpecTags == TagsInit /\ [][TagsNext]_vars

\* C20: callGroq fails only after every one of its attempts was made, each
\* followed by its capped exponential wait, whether the failures were network
\* errors, HTTP error responses or rate-limit responses
C20_TransientFailureRetried ==
    (groq # NoInput /\ groq.pc = "threw") =>
        /\ groq.requests = groq.retries
        /\ Len(groq.waits) >= groq.retries - 1
        /\ \A k \in 1..Len(groq.waits) : groq.waits[k] = Min(1000 * 2 ^ (k - 1), 8000)

NewTagsCall(caller) ==
    /\ tagsCall'.calls = tagsCall.calls + 1
    /\ tagsCall'.caller = caller
    /\ memTags[tagsCall'.id] # "tags"
    /\ diskTags[tagsCall'.id] = "corrupt"

\* C23: an unparseable cached value is a cache miss and raises nothing:
\* getCachedListingTags returns null for a corrupt tags entry,
\* extractListingTags goes on to extract and, having extracted, overwrites the
\* entry in the memory cache and in localStorage, and a corrupt stored swipe
\* history is read as the empty history
C23_CorruptCacheIsMiss ==
    [][/\ NewTagsCall("cached") =>
             (tagsCall'.outcome = "null" /\ UNCHANGED <<memTags, diskTags>>)
       /\ NewTagsCall("tags") =>
             (tagsCall'.pc = "groq" /\ tagsCall'.outcome = "pending" /\ groq' = GroqStart(DefaultRetries))
       /\ (tagsCall.pc = "groq" /\ tagsCall.caller = "tags" /\ tagsCall'.outcome = "extracted") =>
             (memTags'[tagsCall.id] = "tags" /\ diskTags'[tagsCall.id] = "tags")
       /\ (storeOp' # storeOp /\ storedHistory = CorruptStored) =>
             (storeOp'.history = EmptyHistory /\ UNCHANGED storedHistory)]_vars

\* a corrupt tags entry was overwritten by an extraction, after the corrupt
\* swipe history was read
C23_Witness ==
    /\ tagsCall.caller = "tags"
    /\ tagsCall.outcome = "extracted"
    /\ tagsCall.read = "corrupt"
    /\ diskTags[tagsCall.id] = "tags"
    /\ storedHistory = CorruptStored
    /\ storeOp # NoInput

\* the event loop runs a due timer and the network settles every request
SpecTagsFair == SpecTags /\ WF_vars(GroqRespond) /\ WF_vars(GroqDelayDone)

MaxAttempt == 6

GroqOver == groq # NoInput /\ groq.pc \in {"returned", "threw"}

GroqBounded ==
    groq # NoInput =>
        /\ groq.requests <= groq.retries
        /\ groq.pc = "returned" => (groq.requests = Len(groq.waits) + 1 /\ groq.error = "none")
        /\ Len(groq.waits) = groq.retries =>
               (groq.pc \in {"delay", "threw"} /\ (groq.pc = "threw" => groq.error = "rate_limit"))
        /\ (groq.pc = "threw" /\ groq.error = "rate_limit") => Len(groq.waits) = groq.retries
        /\ \A k \in 1..Len(groq.waits) :
               groq.waits[k] = Min(1000 * 2 ^ (k - 1), 8000) /\ groq.waits[k] <= 8000
        /\ \A a \in 0..MaxAttempt : waitMs(a) <= 8000 /\ (a <= 3 => waitMs(a) = 1000 * 2 ^ a)

----------------------------------------------------------------------------
(* enrichListing and the capabilities it depends on (services/rentcast.ts,    *)
(* services/commute.ts, services/groq.ts).  env says which keys are set and   *)
(* what the providers answer when asked with a key.                           *)

\* calculateCommuteTimes: without a key no duration is found and the list of
\* results stays empty
calculateCommuteTimesOn(env) == IF env.commuteKey THEN env.commuteAnswer ELSE <<>>

\* extractListingTags resolves from a cache, or from callGroq when the provider
\* accepts the request; it has no fallback value and rethrows otherwise
extractListingTagsOk(env) == env.cachedTags \/ (env.groqKey /\ env.tagAnswer = "ok")

\* generateMatchExplanation: built from the tags below 3 swipes, else callGroq
generateMatchExplanationOk(history, env) ==
    getTotalSwipes(history) < 3 \/ (env.groqKey /\ env.explainAnswer = "ok")

\* what the try block of enrichListing comes to under env
enrichOutcomeOf(history, env) ==
    IF extractListingTagsOk(env) /\ generateMatchExplanationOk(history, env)
    THEN OkOutcome(env.tags, calculateCommuteTimesOn(env))
    ELSE FailedOutcome

EnrichEnvs ==
    [commuteKey : BOOLEAN, commuteAnswer : {<<>>, <<20>>}, cachedTags : BOOLEAN, groqKey : BOOLEAN,
     tagAnswer : {"ok", "failed"}, explainAnswer : {"ok", "failed"}, tags : {AllAmenities, NeutralTags}]

EnrichInit ==
    /\ swipeHistory \in {EmptyHistory, WarmHistory}
    /\ quizAnswers = NoQuiz
    /\ lastCall = NoCall
    /\ PatOff
    /\ FeedOff
    /\ DiskOff
    /\ nextCall = NoCall
    /\ RawOff
    /\ TagsOff
    /\ MonOff
    /\ \E id \in {1, 2}, pt \in {"rent", "buy"}, env \in EnrichEnvs :
           enrichCall = [pc |-> "start", listing |-> transformToListing(ItemOf(id), pt), env |-> env,
                         result |-> NoInput]

\* await enrichListing(listing)
EnrichListing ==
    /\ enrichCall # NoInput
    /\ enrichCall.pc = "start"
    /\ enrichCall' = [enrichCall EXCEPT
                         !.pc = "done",
                         !.result = enrichListing(swipeHistory, quizAnswers, enrichCall.listing,
                                                  enrichOutcomeOf(swipeHistory, enrichCall.env))]
    /\ UNCHANGED <<storeVars, scoreVars, patVars, feedVars, diskVars, callVars, rawVars, tagVars, monVars>>

EnrichNext == EnrichListing

SpecEnrich == EnrichInit /\ [][EnrichNext]_vars

ScoredWith(t, c) ==
    computeMatchScore(swipeHistory, quizAnswers, t, enrichCall.listing.price,
                      enrichCall.listing.priceType, c)

\* C22: a missing capability never blocks enrichment: without a commute key
\* the listing gets an empty commute list and still its extracted tags, its
\* Scoring Engine score and an explanation; without a tag-extraction key, or
\* when tag extraction fails, the listing is scored with the default neutral
\* tags and does not keep its provisional score
C22_MissingCapabilityDegrades ==
    (enrichCall # NoInput /\ enrichCall.pc = "done") =>
        LET env == enrichCall.env
            out == enrichCall.result
        IN /\ (~env.commuteKey /\ extractListingTagsOk(env)
                   /\ generateMatchExplanationOk(swipeHistory, env)) =>
                  /\ out.commuteTimes = <<>>
                  /\ out.matchExplanation = "enriched"
                  /\ out.matchScore = ScoredWith(env.tags, <<>>)
           /\ ~extractListingTagsOk(env) =>
                  out.matchScore = ScoredWith(NeutralTags, calculateCommuteTimesOn(env))

----------------------------------------------------------------------------
(* monitoring.ts: monitorEvent, the providers behind it and the local queue   *)
(* in localStorage.  The queue may hold events of earlier sessions.           *)

\* queue.slice(-2000)
QueueCap == 2000

\* monitorEvent calls of a session
MaxEmits == 3

\* the event built by the k-th monitorEvent call; createEventId gives each call
\* its own id
MonitoringEvent(k) == [id |-> k, deliveryError |-> FALSE]

\* FallbackProvider: { ...event, payload: { ...event.payload, deliveryError } }
WithDeliveryError(event) == [event EXCEPT !.deliveryError = TRUE]

\* Array.prototype.slice(-n)
SliceLast(s, n) == IF Len(s) <= n THEN s ELSE SubSeq(s, Len(s) - n + 1, Len(s))

appendToQueueUncapped(queue, event) == Append(queue, event)

\* appendToQueue(event): the array written back under "monitoringEventQueue_v1"
appendToQueue(queue, event) == SliceLast(Append(queue, event), QueueCap)

\* the queue left by earlier sessions
Prefilled(n) == [i \in 1..n |-> MonitoringEvent(i)]

\* the module's provider: LocalQueueProvider (dev), FallbackProvider(ApiProvider,
\* LocalQueueProvider) (prod or VITE_MONITOR_ENDPOINT set), or one handed to
\* setMonitoringProvider whose emit rejects (WhiteCircleProvider)
Providers == {"local", "http", "whitecircle"}

MonInit ==
    /\ swipeHistory = EmptyHistory
    /\ quizAnswers = NoQuiz
    /\ lastCall = NoCall
    /\ PatOff
    /\ FeedOff
    /\ DiskOff
    /\ nextCall = NoCall
    /\ RawOff
    /\ TagsOff
    /\ EnrichOff
    /\ \E p \in Providers, n \in {0, QueueCap - 1, QueueCap} :
           /\ monitoringEventQueue = Prefilled(n)
           /\ monitorCalls = [provider |-> p, stored |-> n, made |-> 0, inFlight |-> {},
                              appended |-> <<>>, resolved |-> {}, rejected |-> {}]

\* LocalQueueProvider.emit(event): appendToQueue, whose localStorage.setItem
\* stores the array or throws (quota)
LocalEmit(event, stored) ==
    /\ monitoringEventQueue' = IF stored THEN appendToQueue(monitoringEventQueue, event)
                               ELSE monitoringEventQueue
    /\ monitorCalls' = [monitorCalls EXCEPT
                           !.made = IF event.deliveryError THEN @ ELSE @ + 1,
                           !.inFlight = @ \ {event.id},
                           !.appended = IF stored THEN Append(@, event) ELSE @,
                           \* try { await provider.emit(event) } catch { }
                           !.resolved = @ \cup {event.id}]

\* monitorEvent(type, payload) up to the first await that waits
MonitorEvent ==
    /\ monitorCalls # NoInput
    /\ monitorCalls.made < MaxEmits
    /\ LET event == MonitoringEvent(monitorCalls.stored + monitorCalls.made + 1)
       IN CASE monitorCalls.provider = "local" ->
                   \E stored \in BOOLEAN : LocalEmit(event, stored)
            [] monitorCalls.provider = "http" ->
                   /\ monitorCalls' = [monitorCalls EXCEPT !.made = @ + 1,
                                                           !.inFlight = @ \cup {event.id}]
                   /\ UNCHANGED monitoringEventQueue
            [] monitorCalls.provider = "whitecircle" ->
                   /\ monitorCalls' = [monitorCalls EXCEPT !.made = @ + 1,
                                                           !.resolved = @ \cup {event.id}]
                   /\ UNCHANGED monitoringEventQueue
    /\ UNCHANGED <<storeVars, scoreVars, patVars, feedVars, diskVars, callVars, rawVars, tagVars,
                   enrichVars>>

\* ApiProvider.emit: the POST answered with an ok status
ApiDelivered ==
    /\ monitorCalls # NoInput
    /\ \E id \in monitorCalls.inFlight :
           monitorCalls' = [monitorCalls EXCEPT !.inFlight = @ \ {id}, !.resolved = @ \cup {id}]
    /\ UNCHANGED <<monitoringEventQueue, storeVars, scoreVars, patVars, feedVars, diskVars, callVars,
                   rawVars, tagVars, enrichVars>>

\* ApiProvider.emit rejected (network error or a status that is not ok):
\* FallbackProvider hands the event to the local queue
ApiFailed ==
    /\ monitorCalls # NoInput
    /\ \E id \in monitorCalls.inFlight, stored \in BOOLEAN :
           LocalEmit(WithDeliveryError(MonitoringEvent(id)), stored)
    /\ UNCHANGED <<storeVars, scoreVars, patVars, feedVars, diskVars, callVars, rawVars, tagVars,
                   enrichVars>>

MonNext == MonitorEvent \/ ApiDelivered \/ ApiFailed

SpecMonitor == MonInit /\ [][MonNext]_vars

====
